---- MODULE Spec2Model ----
(***************************************************************************)
(* Billing pipeline of os_credits: the task queue and its workers, the     *)
(* per-group locks, the Perun attribute store, the InfluxDB time series    *)
(* and the billing state machine of update_credits.                        *)
(*                                                                         *)
(* Credits are counted in units of OS_CREDITS_PRECISION (10^-2), so a      *)
(* quantized Decimal is an integer number of units.  Timestamps are        *)
(* datetimes, counted in an abstract unit.                                 *)
(***************************************************************************)
EXTENDS Integers, Sequences, FiniteSets, TLC

VARIABLES
    task_queue,      \* app["task_queue"]: the lines waiting for a worker
    unfinished,      \* Queue._unfinished_tasks: put but not yet task_done
    group_locks,     \* app["group_locks"]: project -> whether its Lock exists, and its holder
    perun,           \* attribute store: project -> credits_granted, credits_used, credits_timestamps
    influx,          \* usage time series: <<project, metric>> -> timestamp -> value
    history,         \* credits history db: project -> sequence of BillingHistory
    pc,              \* position of every worker
    line,            \* the influx line a worker is processing
    group,           \* the worker's Group object (in-memory mirror with change markers)
    local,           \* locals of update_credits: project_measurements, previous_group_credits
    exc,             \* exception travelling out of update_credits
    pre,             \* store and history of the project when the lock was taken
    saved,           \* whether the task has called group.save()
    posted,          \* every line the write endpoint has accepted, in order
    responses,       \* the status of the answer to every request to /write, in order
    notifications,   \* project -> number of notifications sent
    exceptions,      \* worker_exceptions_counter
    initial,         \* the attribute store and the time series at the start
    task_workers,    \* app["task_workers"]: state of every worker task
    cleanup,         \* position of the on_cleanup handlers stop_worker, close_client_sessions
    drain,           \* how the wait for task_queue.join() in stop_worker ended
    registry,        \* Metric._metrics_by_name and Metric.metrics_by_friendly_name
    billing,         \* two measurements and what calculate_credits returned for them
    attribute        \* a scalar and a container PerunAttribute outside any task

vars == <<task_queue, unfinished, group_locks, perun, influx, history, pc, line,
          group, local, exc, pre, saved, posted, responses, notifications, exceptions, initial,
          task_workers, cleanup, drain, registry, billing, attribute>>

\* the variables of the shutdown path
cleanup_vars == <<task_workers, cleanup, drain>>

\* the objects examined on their own
object_vars == <<registry, billing, attribute>>

----------------------------------------------------------------------------
(* Bounds *)

NumWorkers == 2
MaxTime == 3
MaxPosts == 2

Workers == 1..NumWorkers
Times == 1..MaxTime

----------------------------------------------------------------------------
(* Data *)

\* an optional value is the empty tuple or a one-element tuple
None == <<>>
Some(x) == <<x>>
Val(o) == o[1]

Projects == {"p1", "p2"}

VCPUMetric == "project_vcpu_usage"
RAMMetric == "project_mb_usage"

\* Metric._metrics_by_name / REGISTERED_MEASUREMENTS
REGISTERED_MEASUREMENTS == {VCPUMetric, RAMMetric}
Metrics == REGISTERED_MEASUREMENTS

\* CREDITS_PER_VIRTUAL_HOUR as a fraction <<numerator, denominator>>:
\* Decimal(1) and Decimal("0.3") / Decimal(1024)
CREDITS_PER_VIRTUAL_HOUR(metric) ==
    IF metric = VCPUMetric THEN <<1, 1>> ELSE <<3, 10240>>

\* OS_CREDITS_PRECISION = Decimal(10) ** -2: units per credit
UnitsPerCredit == 100

\* usage values carried by posted lines; a point that is already stored
\* when the model starts has the value 0
Values == {10, 20}

Series == Projects \X Metrics

\* The lines the write endpoint may receive: measurement name, the keys of
\* the tags and fields present, their values, and the form of the timestamp
\* segment: "int" is an integer datetime.fromtimestamp accepts, "text" is
\* not an integer literal, "huge" is an integer beyond the platform's time_t.
\* A line whose metric is not registered and a line without its value field
\* stand for the non-billable and the malformed records.
RequiredKeys == {"location_id", "project_name", "value"}
UsageLines ==
    [name : Metrics, keys : {RequiredKeys}, project_name : {"p1"},
     value : Values, timestamp : Times, timestamp_str : {"int"}]
    \cup [name : {VCPUMetric}, keys : {RequiredKeys}, project_name : {"p2"},
          value : {10}, timestamp : {MaxTime}, timestamp_str : {"int"}]

NonBillableLine ==
    [name |-> "node_load", keys |-> RequiredKeys, project_name |-> "p1",
     value |-> 10, timestamp |-> MaxTime, timestamp_str |-> "int"]
MalformedLine ==
    [name |-> VCPUMetric, keys |-> {"location_id", "project_name"}, project_name |-> "p1",
     value |-> 0, timestamp |-> MaxTime, timestamp_str |-> "int"]
UnparsableLine ==
    [name |-> VCPUMetric, keys |-> RequiredKeys, project_name |-> "p1",
     value |-> 10, timestamp |-> MaxTime, timestamp_str |-> "text"]
OutOfRangeLine ==
    [name |-> VCPUMetric, keys |-> RequiredKeys, project_name |-> "p1",
     value |-> 10, timestamp |-> MaxTime, timestamp_str |-> "huge"]
Lines == UsageLines \cup {NonBillableLine, MalformedLine}

\* records that are dropped, next to lines that are billed
DropLines ==
    {l \in UsageLines : l.name = VCPUMetric}
        \cup {NonBillableLine, MalformedLine, UnparsableLine, OutOfRangeLine}

\* the lines of one project and one metric
VCPULines == {l \in UsageLines : l.project_name = "p1" /\ l.name = VCPUMetric}

----------------------------------------------------------------------------
(* Pure functions *)

Abs(n) == IF n < 0 THEN -n ELSE n

\* Decimal.quantize under the default context: n/d rounded to an integer,
\* ties to the even neighbour (ROUND_HALF_EVEN), symmetric around zero
Quantize(n, d) ==
    LET q == Abs(n) \div d
        r == Abs(n) % d
        m == IF 2 * r > d THEN q + 1
             ELSE IF 2 * r < d THEN q
             ELSE IF q % 2 = 0 THEN q ELSE q + 1
    IN  IF n < 0 THEN -m ELSE m

\* TotalUsageMetric.calculate_credits: (current.value - older.value) *
\* CREDITS_PER_VIRTUAL_HOUR, quantized to OS_CREDITS_PRECISION (in units)
MetricCalculateCredits(metric, current_value, older_value) ==
    LET price == CREDITS_PER_VIRTUAL_HOUR(metric)
    IN  Quantize((current_value - older_value) * price[1] * UnitsPerCredit, price[2])

\* the time of a measurement, which billing.calculate_credits reads as
\* `time`; the point carries it in its field timestamp
MeasurementTime(measurement) == measurement.timestamp

\* mutant: the second argument is always the current measurement
calculate_credits_SecondIsNewer(metric, measurement1, measurement2) ==
    LET credits == MetricCalculateCredits(metric, measurement2.value, measurement1.value)
    IN  IF credits < 0
        THEN [raised |-> TRUE, credits |-> 0]
        ELSE [raised |-> FALSE, credits |-> credits]

\* mutant: a negative amount is returned instead of raising
calculate_credits_NoCheck(metric, measurement1, measurement2) ==
    LET older == IF MeasurementTime(measurement1) < MeasurementTime(measurement2)
                 THEN measurement1 ELSE measurement2
        newer == IF MeasurementTime(measurement1) < MeasurementTime(measurement2)
                 THEN measurement2 ELSE measurement1
    IN  [raised |-> FALSE,
         credits |-> MetricCalculateCredits(metric, newer.value, older.value)]

\* billing.calculate_credits: the measurement with the later time is the
\* current one; a negative amount raises CalculationResultError
calculate_credits(metric, measurement1, measurement2) ==
    LET older == IF MeasurementTime(measurement1) < MeasurementTime(measurement2)
                 THEN measurement1 ELSE measurement2
        newer == IF MeasurementTime(measurement1) < MeasurementTime(measurement2)
                 THEN measurement2 ELSE measurement1
        credits == MetricCalculateCredits(metric, newer.value, older.value)
    IN  IF credits < 0
        THEN [raised |-> TRUE, credits |-> 0]
        ELSE [raised |-> FALSE, credits |-> credits]

\* InfluxDBClient.query_points: the points of one series, ORDER BY time DESC
RECURSIVE PointsDescFrom(_, _)
PointsDescFrom(series, t) ==
    IF t < 1 THEN <<>>
    ELSE (IF series[t] = None THEN <<>>
          ELSE <<[timestamp |-> t, value |-> Val(series[t])]>>)
         \o PointsDescFrom(series, t - 1)

query_points(series) == PointsDescFrom(series, MaxTime)

\* mutant: the points at `since` are left out
RECURSIVE query_points_since_Strict(_, _)
query_points_since_Strict(points, since) ==
    IF points = <<>> THEN <<>>
    ELSE IF Head(points).timestamp > since
         THEN <<Head(points)>> \o query_points_since_Strict(Tail(points), since)
         ELSE <<>>

\* InfluxDBClient.query_points_since: yield points while their timestamp is
\* >= since and stop at the first older one
RECURSIVE query_points_since(_, _)
query_points_since(points, since) ==
    IF points = <<>> THEN <<>>
    ELSE IF Head(points).timestamp >= since
         THEN <<Head(points)>> \o query_points_since(Tail(points), since)
         ELSE <<>>

\* InfluxDBClient.previous_measurements: the points since `since`, keyed by
\* timestamp in the order they were yielded (newest first)
previous_measurements(db, project_name, metric, since) ==
    query_points_since(query_points(db[<<project_name, metric>>]), since)

\* mutant: the key is never found
Lookup_KeyError(points, timestamp) == None

\* mutant: the value before the current one is taken, whatever its timestamp
Lookup_Previous(points, timestamp) ==
    IF Len(points) >= 2 THEN Some(points[2]) ELSE None

\* project_measurements[timestamp]; None stands for KeyError
Lookup(points, timestamp) ==
    IF \E i \in 1..Len(points) : points[i].timestamp = timestamp
    THEN Some(CHOOSE pt \in {points[i] : i \in 1..Len(points)} : pt.timestamp = timestamp)
    ELSE None

----------------------------------------------------------------------------
(* Perun attributes *)

\* Perun transmits every attribute value as a string
Str(x) == <<"str", x>>
Unstr(s) == s[2]

\* DenbiCreditsUsed.perun_deserialize / perun_serialize
DenbiCreditsUsed_deserialize(value) == IF value = None THEN None ELSE Some(Unstr(value))
DenbiCreditsUsed_serialize(value) == IF value = None THEN None ELSE Str(Val(value))

\* DenbiCreditsGranted.perun_decode
DenbiCreditsGranted_decode(value) == Unstr(value)

\* DenbiCreditTimestamps.perun_decode / perun_encode: a metric without an
\* entry maps to None
DenbiCreditTimestamps_decode(value) ==
    [m \in Metrics |-> IF value[m] = None THEN None ELSE Some(Unstr(value[m]))]
DenbiCreditTimestamps_encode(value) ==
    [m \in Metrics |-> IF value[m] = None THEN None ELSE Str(Val(value[m]))]

NoTimestamps == [m \in Metrics |-> None]

\* mutant: the new value is stored without marking the attribute as changed
ScalarSet_NoMark(g, v) == [g EXCEPT !.credits_used = v]

\* ScalarPerunAttribute.value setter: the value and the changed marker are
\* only touched when the new value differs
ScalarSet(g, v) ==
    IF g.credits_used # v
    THEN [g EXCEPT !.credits_used = v, !.credits_used_updated = TRUE]
    ELSE g

\* Python values of two types: Decimal 0, 1, 2 and the strings "", "a", "b"
\* (v = 0 is the value bool() takes as false), next to None
ScalarValues == {None} \cup {Some([type |-> t, v |-> n]) : t \in {"Decimal", "str"}, n \in 0..2}

\* type(value).__name__
TypeOf(value) == IF value = None THEN "NoneType" ELSE Val(value).type

\* bool(value)
Truthy(value) == value # None /\ Val(value).v # 0

\* PerunAttribute.__init__ of a scalar attribute: _value is the fetched
\* value, _updated the class default False
ScalarAttribute(value) == [value |-> value, updated |-> FALSE]

\* mutant: the type is checked whenever the current value is not None
ScalarValueSet_NotNone(attr, value) ==
    IF attr.value # None /\ TypeOf(value) # TypeOf(attr.value)
    THEN [attr |-> attr, raised |-> "TypeError"]
    ELSE IF attr.value # value
    THEN [attr |-> [value |-> value, updated |-> TRUE], raised |-> "none"]
    ELSE [attr |-> attr, raised |-> "none"]

\* ScalarPerunAttribute.value setter: TypeError if bool(_value) and the new
\* value is no instance of its type; otherwise a value that differs is
\* stored and _updated set
ScalarValueSet(attr, value) ==
    IF Truthy(attr.value) /\ TypeOf(value) # TypeOf(attr.value)
    THEN [attr |-> attr, raised |-> "TypeError"]
    ELSE IF attr.value # value
    THEN [attr |-> [value |-> value, updated |-> TRUE], raised |-> "none"]
    ELSE [attr |-> attr, raised |-> "none"]

\* ContainerPerunAttribute.__init__: _value_copy = _value.copy()
ContainerAttribute(value) == [credits_timestamps |-> value, credits_timestamps_copy |-> value]

\* mutant: has_changed = False leaves the copy as it is
ContainerSetHasChanged_Keep(attr, value) ==
    IF ~value
    THEN [attr |-> attr, raised |-> "none"]
    ELSE [attr |-> attr, raised |-> "ValueError"]

\* ContainerPerunAttribute.has_changed setter: False takes a new copy of the
\* contents, True raises ValueError
ContainerSetHasChanged(attr, value) ==
    IF ~value
    THEN [attr |-> [attr EXCEPT !.credits_timestamps_copy = attr.credits_timestamps],
          raised |-> "none"]
    ELSE [attr |-> attr, raised |-> "ValueError"]

\* ContainerPerunAttribute.value is a property without a setter
ContainerValueSet(attr, value) == [attr |-> attr, raised |-> "AttributeError"]

\* mutant: a container attribute is never seen as changed
ContainerHasChanged_Never(g) == FALSE

\* ContainerPerunAttribute.has_changed: contents against the copy taken on
\* construction
ContainerHasChanged(g) == g.credits_timestamps_copy # g.credits_timestamps

\* what the attribute store holds, decoded
PersistedUsed(p) == DenbiCreditsUsed_deserialize(perun[p].credits_used)
PersistedTimestamps(p) == DenbiCreditTimestamps_decode(perun[p].credits_timestamps)
PersistedGranted(p) == DenbiCreditsGranted_decode(perun[p].credits_granted)

----------------------------------------------------------------------------
(* Initial state *)

NoGroup ==
    [credits_granted |-> 0, credits_used |-> None, credits_used_updated |-> FALSE,
     credits_timestamps |-> NoTimestamps, credits_timestamps_copy |-> NoTimestamps]
\* defaultdict(create_new_group_lock): no Lock exists before the first
\* reference to a project
NoLock == [created |-> FALSE, holder |-> None]
NoLine == [name |-> "", keys |-> {}, project_name |-> "", value |-> 0, timestamp |-> 0,
           timestamp_str |-> ""]
NoSnapshot == [perun |-> None, history |-> <<>>]
NoLocal == [project_measurements |-> <<>>, previous_group_credits |-> None]

\* TEST_INITIAL_CREDITS_GRANTED is 200; with a grant of 30 credits the
\* bounded usage values reach and cross half of it
CreditsGranted == 30

PerunGroup(used, timestamps) ==
    [exists |-> TRUE,
     credits_granted |-> Str(CreditsGranted),
     credits_used |-> DenbiCreditsUsed_serialize(used),
     credits_timestamps |-> DenbiCreditTimestamps_encode(timestamps)]

\* a name that getGroupByName does not resolve; it has no attributes
NoSuchGroup == [PerunGroup(None, NoTimestamps) EXCEPT !.exists = FALSE]

\* States of a project in Perun when the service starts: never billed,
\* billed before for one or both metrics, billed beyond half of its grant,
\* and billed before but with credits_used removed by hand.
InitGroups(p) ==
    IF p = "p1"
    THEN {PerunGroup(None, NoTimestamps),
          PerunGroup(Some(0), [NoTimestamps EXCEPT ![VCPUMetric] = Some(1)]),
          PerunGroup(Some(0), [m \in Metrics |-> Some(1)]),
          PerunGroup(Some(20 * UnitsPerCredit), [NoTimestamps EXCEPT ![VCPUMetric] = Some(1)]),
          PerunGroup(None, [NoTimestamps EXCEPT ![VCPUMetric] = Some(1)])}
    ELSE {PerunGroup(None, NoTimestamps)}

\* The time series holds, for a metric billed before, the point at the
\* last-billed timestamp, unless retention has removed it.
InitInflux(store, expired) ==
    [s \in Series |->
        [t \in Times |->
            IF /\ DenbiCreditTimestamps_decode(store[s[1]].credits_timestamps)[s[2]] = Some(t)
               /\ s \notin expired
            THEN Some(0) ELSE None]]

\* the service has started and no request has arrived; groups[p] are the
\* states project p may be in
InitState(groups) ==
    /\ task_queue = <<>>
    /\ unfinished = 0
    /\ group_locks = [p \in Projects |-> NoLock]
    /\ perun \in {f \in [Projects -> UNION {groups[p] : p \in Projects}] :
                     \A p \in Projects : f[p] \in groups[p]}
    /\ \E expired \in SUBSET ({"p1"} \X Metrics) : influx = InitInflux(perun, expired)
    /\ history = [p \in Projects |-> <<>>]
    /\ pc = [w \in Workers |-> "get"]
    /\ line = [w \in Workers |-> NoLine]
    /\ group = [w \in Workers |-> NoGroup]
    /\ local = [w \in Workers |-> NoLocal]
    /\ exc = [w \in Workers |-> "none"]
    /\ pre = [w \in Workers |-> NoSnapshot]
    /\ saved = [w \in Workers |-> FALSE]
    /\ posted = <<>>
    /\ responses = <<>>
    /\ notifications = [p \in Projects |-> 0]
    /\ exceptions = 0
    /\ initial = [perun |-> perun, influx |-> influx]
    /\ task_workers = [w \in Workers |-> "running"]
    /\ cleanup = "serving"
    /\ drain = "none"

----------------------------------------------------------------------------
(* The metric registry *)

MaxClasses == 3

MetricNames == Metrics \cup {"project_gpu_usage"}
FriendlyNames == {"cpu", "ram", "gpu"}

\* class Metric: both maps are empty
EmptyRegistry ==
    [metrics_by_name |-> [n \in MetricNames |-> None],
     metrics_by_friendly_name |-> [f \in FriendlyNames |-> None],
     defined |-> 0,
     last |-> [name |-> None, friendly_name |-> None],
     raised |-> "none"]

\* mutant: only the name is checked before both maps are updated
init_subclass_NameOnly(reg, cls, name, friendly_name) ==
    LET attempt == [reg EXCEPT !.defined = cls,
                               !.last = [name |-> name, friendly_name |-> friendly_name],
                               !.raised = "none"]
        metric == [cls |-> cls, name |-> Val(name), friendly_name |-> Val(friendly_name)]
    IN  IF name = None \/ friendly_name = None THEN attempt
        ELSE IF reg.metrics_by_name[Val(name)] # None
        THEN [attempt EXCEPT !.raised = "ValueError"]
        ELSE [attempt EXCEPT !.metrics_by_name[Val(name)] = Some(metric),
                             !.metrics_by_friendly_name[Val(friendly_name)] = Some(metric)]

\* Metric.__init_subclass__ for the class numbered cls: nothing is registered
\* when a name is None; ValueError when the name or the friendly_name is a
\* key already; otherwise both maps get the class
init_subclass(reg, cls, name, friendly_name) ==
    LET attempt == [reg EXCEPT !.defined = cls,
                               !.last = [name |-> name, friendly_name |-> friendly_name],
                               !.raised = "none"]
        metric == [cls |-> cls, name |-> Val(name), friendly_name |-> Val(friendly_name)]
    IN  IF name = None \/ friendly_name = None THEN attempt
        ELSE IF reg.metrics_by_name[Val(name)] # None
        THEN [attempt EXCEPT !.raised = "ValueError"]
        ELSE IF reg.metrics_by_friendly_name[Val(friendly_name)] # None
        THEN [attempt EXCEPT !.raised = "ValueError"]
        ELSE [attempt EXCEPT !.metrics_by_name[Val(name)] = Some(metric),
                             !.metrics_by_friendly_name[Val(friendly_name)] = Some(metric)]

\* credits.models: VCPUMetric and RAMMetric are defined at import
ImportedRegistry ==
    init_subclass(init_subclass(EmptyRegistry, 1, Some(VCPUMetric), Some("cpu")),
                  2, Some(RAMMetric), Some("ram"))

NoBilling == <<>>
NoAttribute == <<>>

\* the objects as the running service has them
ObjectsIdle ==
    /\ registry = ImportedRegistry
    /\ billing = NoBilling
    /\ attribute = NoAttribute

Init == InitState([p \in Projects |-> InitGroups(p)]) /\ ObjectsIdle

\* the service starts on a project that was billed before for both metrics
\* and whose points are still stored
InitBilled ==
    /\ Init
    /\ perun["p1"] = PerunGroup(Some(0), [m \in Metrics |-> Some(1)])
    /\ influx = InitInflux(perun, {})

\* p1 was billed before for both metrics, Perun has no group named p2
DropGroups(p) ==
    IF p = "p1"
    THEN {PerunGroup(Some(0), [m \in Metrics |-> Some(1)])}
    ELSE {NoSuchGroup}

InitDrop ==
    /\ InitState([p \in Projects |-> DropGroups(p)])
    /\ influx = InitInflux(perun, {})
    /\ ObjectsIdle

\* usage values whose differences, at the price of RAM, fall on and between
\* the ties of the rounding
BillingValues == {0, 10, 256, 768}
BillingMeasurements == [timestamp : Times, value : BillingValues]

\* two measurements of one metric are at hand, nothing is calculated yet
InitBilling ==
    /\ InitState([p \in Projects |-> DropGroups(p)])
    /\ influx = InitInflux(perun, {})
    /\ registry = ImportedRegistry
    /\ attribute = NoAttribute
    /\ \E metric \in Metrics, m1 \in BillingMeasurements, m2 \in BillingMeasurements :
          billing = [metric |-> metric, measurement1 |-> m1, measurement2 |-> m2,
                     forward |-> None, backward |-> None]

\* contents of a container attribute: timestamps of up to two metrics
ContainerTimes == {1, 2}
ContainerValues == [Metrics -> {None} \cup {Some(t) : t \in ContainerTimes}]

\* a scalar and a container attribute have been fetched, as Group.connect
\* constructs them; snapshot remembers the contents at construction and at
\* the last reset, last the operation applied last
InitAttribute ==
    /\ InitState([p \in Projects |-> DropGroups(p)])
    /\ influx = InitInflux(perun, {})
    /\ registry = ImportedRegistry
    /\ billing = NoBilling
    /\ \E value \in ScalarValues,
          contents \in {NoTimestamps, [NoTimestamps EXCEPT ![VCPUMetric] = Some(1)]} :
          attribute = [scalar |-> ScalarAttribute(value),
                       container |-> ContainerAttribute(contents),
                       snapshot |-> contents,
                       last |-> [op |-> "fetch", value |-> None],
                       raised |-> "none"]

\* the module credits.base_models has been imported, no metric is defined
InitRegistry ==
    /\ InitState([p \in Projects |-> DropGroups(p)])
    /\ influx = InitInflux(perun, {})
    /\ registry = EmptyRegistry
    /\ billing = NoBilling
    /\ attribute = NoAttribute

----------------------------------------------------------------------------
(* The write endpoint *)

\* web.HTTPAccepted
HTTPAccepted == 202

\* tests.write_and_mirror / views.influxdb_write: InfluxDB stores the point and
\* posts the line to /write, which puts it on the task queue
write_and_mirror(l) ==
    /\ cleanup = "serving"
    /\ Len(posted) < MaxPosts
    /\ influx' = IF l \in UsageLines
                 THEN [influx EXCEPT ![<<l.project_name, l.name>>][l.timestamp] = Some(l.value)]
                 ELSE influx
    /\ task_queue' = Append(task_queue, l)
    /\ unfinished' = unfinished + 1
    /\ posted' = Append(posted, l)
    /\ responses' = Append(responses, HTTPAccepted)
    /\ UNCHANGED <<group_locks, perun, history, pc, line, group, local, exc, pre,
                   saved, notifications, exceptions, initial, cleanup_vars, object_vars>>

\* the lines of a request body, as splitlines returns them, all mirrored
RECURSIVE MirrorAll(_, _)
MirrorAll(db, body) ==
    IF body = <<>> THEN db
    ELSE LET l == Head(body)
             stored == IF l \in UsageLines
                       THEN [db EXCEPT ![<<l.project_name, l.name>>][l.timestamp] = Some(l.value)]
                       ELSE db
         IN  MirrorAll(stored, Tail(body))

\* mutant: the lines of a body are put on the queue last line first
RECURSIVE PutAll_Reversed(_, _)
PutAll_Reversed(queue, body) ==
    IF body = <<>> THEN queue
    ELSE Append(PutAll_Reversed(queue, Tail(body)), Head(body))

\* influxdb_write_endpoint: for influx_line in influxdb_lines.splitlines():
\* await task_queue.put(influx_line); the queue is unbounded, put appends
RECURSIVE PutAll(_, _)
PutAll(queue, body) ==
    IF body = <<>> THEN queue
    ELSE PutAll(Append(queue, Head(body)), Tail(body))

\* request bodies: no line, one line or several lines, billable or not
WriteLines == VCPULines \cup {NonBillableLine, MalformedLine}
Bodies == UNION {[1..n -> WriteLines] : n \in 0..MaxPosts}

\* InfluxDB posts a body of lines it has stored to /write: every line is put
\* on the task queue and the request is answered with 202
influxdb_write_endpoint(body) ==
    /\ cleanup = "serving"
    /\ Len(responses) < MaxPosts
    /\ Len(posted) + Len(body) <= MaxPosts
    /\ influx' = MirrorAll(influx, body)
    /\ task_queue' = PutAll(task_queue, body)
    /\ unfinished' = unfinished + Len(body)
    /\ posted' = posted \o body
    /\ responses' = Append(responses, HTTPAccepted)
    /\ UNCHANGED <<group_locks, perun, history, pc, line, group, local, exc, pre,
                   saved, notifications, exceptions, initial, cleanup_vars, object_vars>>

----------------------------------------------------------------------------
(* worker and process_influx_line *)

\* mutant: the record enqueued last is taken first
QueueGet_Last(queue) ==
    [item |-> queue[Len(queue)], rest |-> SubSeq(queue, 1, Len(queue) - 1)]

\* asyncio.Queue.get: the record enqueued first and the remaining queue
QueueGet(queue) == [item |-> Head(queue), rest |-> Tail(queue)]

ProjectOf(w) == line[w].project_name
MetricOf(w) == line[w].name

\* mutant: every measurement name is registered
measurement_by_name_Any(influx_line) == "ok"

\* measurement_by_name: ValueError unless the text before the first comma is
\* a key of REGISTERED_MEASUREMENTS
measurement_by_name(influx_line) ==
    IF influx_line.name \in REGISTERED_MEASUREMENTS THEN "ok" ELSE "ValueError"

\* InfluxDBPoint.from_lineprotocol: the timestamp segment is converted first,
\* int() raising ValueError and datetime.fromtimestamp OverflowError; then a
\* field of the class that the line lacks raises KeyError
from_lineprotocol(influx_line) ==
    IF influx_line.timestamp_str = "text" THEN "ValueError"
    ELSE IF influx_line.timestamp_str = "huge" THEN "OverflowError"
    ELSE IF ~(RequiredKeys \subseteq influx_line.keys) THEN "KeyError"
    ELSE "ok"

\* process_influx_line: except (KeyError, ValueError) around from_lineprotocol
DecodeErrorsCaught == {"KeyError", "ValueError"}

\* worker: task_queue.get(); process_influx_line up to the lock: lines of an
\* unregistered metric and lines that cannot be decoded end the task, an
\* exception that is not caught leaves process_influx_line
WorkerGet(w) ==
    /\ task_workers[w] = "running"
    /\ pc[w] = "get"
    /\ task_queue # <<>>
    /\ LET influx_line == QueueGet(task_queue).item
           decoded == from_lineprotocol(influx_line)
       IN
        /\ line' = [line EXCEPT ![w] = influx_line]
        /\ IF measurement_by_name(influx_line) # "ok"
           THEN pc' = [pc EXCEPT ![w] = "task_done"] /\ exc' = exc
           ELSE IF decoded \in DecodeErrorsCaught
           THEN pc' = [pc EXCEPT ![w] = "task_done"] /\ exc' = exc
           ELSE IF decoded # "ok"
           THEN pc' = [pc EXCEPT ![w] = "task_done"] /\ exc' = [exc EXCEPT ![w] = "error"]
           ELSE pc' = [pc EXCEPT ![w] = "lock"] /\ exc' = exc
    /\ task_queue' = QueueGet(task_queue).rest
    /\ UNCHANGED <<unfinished, group_locks, perun, influx, history, group, local,
                   pre, saved, posted, responses, notifications, exceptions, initial, cleanup_vars,
                   object_vars>>

\* mutant: the lock is entered without waiting for its holder
LockIsFree_NoWait(p) == TRUE

\* a Lock can be taken when it does not exist yet (the defaultdict creates
\* it) or when nobody holds it
LockIsFree(p) == group_locks[p].holder = None

\* process_influx_line: async with group_locks[perun_group.name]
AcquireLock(w) ==
    /\ pc[w] = "lock"
    /\ LockIsFree(ProjectOf(w))
    /\ group_locks' = [group_locks EXCEPT ![ProjectOf(w)] =
                           [created |-> TRUE, holder |-> Some(w)]]
    /\ pre' = [pre EXCEPT ![w] = [perun |-> Some(perun[ProjectOf(w)]),
                                  history |-> history[ProjectOf(w)]]]
    /\ pc' = [pc EXCEPT ![w] = "connect"]
    /\ UNCHANGED <<task_queue, unfinished, perun, influx, history, line, group, local,
                   exc, saved, posted, responses, notifications, exceptions, initial, cleanup_vars,
                   object_vars>>

\* mutant: the task goes on to the notification while it holds the lock
ReleaseLock_Keep(w) ==
    /\ pc[w] = "release"
    /\ pc' = [pc EXCEPT ![w] = IF exc[w] = "notification" THEN "notify" ELSE "task_done"]
    /\ UNCHANGED <<task_queue, unfinished, group_locks, perun, influx, history, line, group,
                   local, exc, pre, saved, posted, responses, notifications, exceptions,
                   initial, cleanup_vars, object_vars>>

\* process_influx_line: leaving the async with block, whether update_credits
\* returned or raised; a notification is sent afterwards
ReleaseLock(w) ==
    /\ pc[w] = "release"
    /\ group_locks' = [group_locks EXCEPT ![ProjectOf(w)].holder = None]
    /\ pc' = [pc EXCEPT ![w] = IF exc[w] = "notification" THEN "notify" ELSE "task_done"]
    /\ UNCHANGED <<task_queue, unfinished, perun, influx, history, line, group, local,
                   exc, pre, saved, posted, responses, notifications, exceptions, initial, cleanup_vars,
                   object_vars>>

\* process_influx_line: except EmailNotificationBase: send_notification
SendNotification(w) ==
    /\ pc[w] = "notify"
    /\ notifications' = [notifications EXCEPT ![ProjectOf(w)] = @ + 1]
    /\ exc' = [exc EXCEPT ![w] = "none"]
    /\ pc' = [pc EXCEPT ![w] = "task_done"]
    /\ UNCHANGED <<task_queue, unfinished, group_locks, perun, influx, history, line,
                   group, local, pre, saved, posted, responses, exceptions, initial, cleanup_vars,
                   object_vars>>

\* mutant: no exception reaches the counter
IsCounted_Never(e) == FALSE

\* worker: except Exception: worker_exceptions_counter.inc()
IsCounted(e) == e \in {"error", "AttributeError"}

\* worker: except Exception counts the failure, finally task_queue.task_done()
TaskDone(w) ==
    /\ task_workers[w] = "running"
    /\ pc[w] = "task_done"
    /\ exceptions' = IF IsCounted(exc[w]) THEN exceptions + 1 ELSE exceptions
    /\ unfinished' = unfinished - 1
    /\ pc' = [pc EXCEPT ![w] = "get"]
    /\ line' = [line EXCEPT ![w] = NoLine]
    /\ group' = [group EXCEPT ![w] = NoGroup]
    /\ local' = [local EXCEPT ![w] = NoLocal]
    /\ exc' = [exc EXCEPT ![w] = "none"]
    /\ pre' = [pre EXCEPT ![w] = NoSnapshot]
    /\ saved' = [saved EXCEPT ![w] = FALSE]
    /\ UNCHANGED <<task_queue, group_locks, perun, influx, history, posted, responses, notifications, initial, cleanup_vars,
                   object_vars>>

----------------------------------------------------------------------------
(* update_credits, one action per call to Perun or InfluxDB *)

\* close_client_sessions has not closed the Perun session and the InfluxDB
\* client yet
SessionOpen == cleanup # "done"

\* where update_credits awaits a call to Perun or InfluxDB
StoreCalls == {"connect", "connect_rb", "query", "history", "save", "save_rb"}

\* a call to Perun or InfluxDB raises; the exception leaves update_credits
\* and the async with block
StoreCallFails(w) ==
    /\ pc[w] \in StoreCalls
    /\ exc' = [exc EXCEPT ![w] = "error"]
    /\ pc' = [pc EXCEPT ![w] = "release"]
    /\ UNCHANGED <<task_queue, unfinished, group_locks, perun, influx, history, line,
                   group, local, pre, saved, posted, responses, notifications, exceptions, initial,
                   cleanup_vars, object_vars>>

\* mutant: every name is resolved
GroupNotExists_Never(p) == FALSE

\* get_group_by_name: Perun answers GroupNotExistsException
GroupNotExists(p) == ~perun[p].exists

\* Group.connect: get_group_by_name and get_attributes fill the attributes
\* that are not bound to a resource
GroupConnect(w) ==
    /\ SessionOpen
    /\ pc[w] = "connect"
    /\ IF GroupNotExists(ProjectOf(w))
       THEN \* update_credits: except GroupNotExistsError: return
            /\ group' = group
            /\ pc' = [pc EXCEPT ![w] = "release"]
       ELSE /\ group' = [group EXCEPT ![w] =
                    [NoGroup EXCEPT
                        !.credits_granted = DenbiCreditsGranted_decode(perun[ProjectOf(w)].credits_granted),
                        !.credits_used = DenbiCreditsUsed_deserialize(perun[ProjectOf(w)].credits_used)]]
            /\ pc' = [pc EXCEPT ![w] = "connect_rb"]
    /\ UNCHANGED <<task_queue, unfinished, group_locks, perun, influx, history, line,
                   local, exc, pre, saved, posted, responses, notifications, exceptions, initial, cleanup_vars,
                   object_vars>>

\* mutant: no measurement is taken as stale
IsStale_Never(current_timestamp, last_measurement_timestamp) == FALSE

\* mutant: only strictly older measurements are taken as stale
IsStale_Strict(current_timestamp, last_measurement_timestamp) ==
    current_timestamp < Val(last_measurement_timestamp)

\* update_credits: current_measurement.timestamp <= last_measurement_timestamp
IsStale(current_timestamp, last_measurement_timestamp) ==
    current_timestamp <= Val(last_measurement_timestamp)

\* mutant: a missing credits_used is always taken as never billed
CreditsUsedMissing_Never(credits_used, credits_timestamps) == FALSE

\* update_credits: credits_used is None although credits_timestamps holds
\* a timestamp: raise DenbiCreditsUsedMissing
CreditsUsedMissing(credits_used, credits_timestamps) ==
    credits_used = None /\ credits_timestamps # NoTimestamps

\* Group.connect: get_resource_bound_attributes fills credits_timestamps.
\* update_credits then runs up to its next call: credits_used missing,
\* first measurement of the metric, stale measurement.
ConnectResourceBound(w) ==
    /\ SessionOpen
    /\ pc[w] = "connect_rb"
    /\ LET timestamps == DenbiCreditTimestamps_decode(perun[ProjectOf(w)].credits_timestamps)
           connected == [group[w] EXCEPT !.credits_timestamps = timestamps,
                                         !.credits_timestamps_copy = timestamps]
           initialised == IF connected.credits_used = None
                          THEN ScalarSet(connected, Some(0)) ELSE connected
           last_measurement_timestamp == timestamps[MetricOf(w)]
       IN  IF CreditsUsedMissing(connected.credits_used, timestamps)
           THEN \* raise DenbiCreditsUsedMissing
                /\ group' = [group EXCEPT ![w] = connected]
                /\ exc' = [exc EXCEPT ![w] = "error"]
                /\ pc' = [pc EXCEPT ![w] = "release"]
           ELSE IF last_measurement_timestamp = None
           THEN \* store the timestamp of the current measurement and save
                /\ group' = [group EXCEPT ![w] =
                        [initialised EXCEPT !.credits_timestamps[MetricOf(w)] =
                                                Some(line[w].timestamp)]]
                /\ exc' = exc
                /\ pc' = [pc EXCEPT ![w] = "save"]
           ELSE IF IsStale(line[w].timestamp, last_measurement_timestamp)
           THEN /\ group' = [group EXCEPT ![w] = initialised]
                /\ exc' = exc
                /\ pc' = [pc EXCEPT ![w] = "release"]
           ELSE /\ group' = [group EXCEPT ![w] = initialised]
                /\ exc' = exc
                /\ pc' = [pc EXCEPT ![w] = "query"]
    /\ UNCHANGED <<task_queue, unfinished, group_locks, perun, influx, history, line,
                   local, pre, saved, posted, responses, notifications, exceptions, initial, cleanup_vars,
                   object_vars>>

\* mutant: a bill of zero credits is committed like any other
NoChangeDueToRounding_Never(previous_group_credits, credits_used) == FALSE

\* update_credits: previous_group_credits == group.credits_used.value, the
\* bill is lost to rounding
NoChangeDueToRounding(previous_group_credits, credits_used) ==
    previous_group_credits = credits_used

\* update_credits: list(project_measurements)[0], stored as
\* oldest_measurement_timestamp
FirstKey(project_measurements) == Head(project_measurements).timestamp

\* update_credits: previous_measurements, then everything up to the next
\* call: missing previous value, equal values, calculate_credits, rounding
QueryPrevious(w) ==
    /\ SessionOpen
    /\ pc[w] = "query"
    /\ LET g == group[w]
           metric == MetricOf(w)
           last_measurement_timestamp == g.credits_timestamps[metric]
           project_measurements ==
               previous_measurements(influx, ProjectOf(w), metric,
                                     Val(last_measurement_timestamp))
           last_measurement == Lookup(project_measurements, Val(last_measurement_timestamp))
           result == calculate_credits(metric, line[w], Val(last_measurement))
           billed == ScalarSet([g EXCEPT !.credits_timestamps[metric] = Some(line[w].timestamp)],
                               Some(Val(g.credits_used) + result.credits))
       IN  /\ local' = [local EXCEPT ![w].project_measurements = project_measurements,
                                     ![w].previous_group_credits =
                                         IF last_measurement # None
                                            /\ line[w].value # Val(last_measurement).value
                                            /\ ~result.raised
                                         THEN g.credits_used ELSE None]
           /\ IF last_measurement = None
              THEN IF project_measurements = <<>>
                   THEN \* list(project_measurements)[0] raises IndexError
                        /\ group' = group
                        /\ exc' = [exc EXCEPT ![w] = "error"]
                        /\ pc' = [pc EXCEPT ![w] = "release"]
                   ELSE /\ group' = [group EXCEPT ![w].credits_timestamps[metric] =
                                         Some(FirstKey(project_measurements))]
                        /\ exc' = exc
                        /\ pc' = [pc EXCEPT ![w] = "save"]
              ELSE IF line[w].value = Val(last_measurement).value
              THEN /\ group' = group
                   /\ exc' = exc
                   /\ pc' = [pc EXCEPT ![w] = "release"]
              ELSE IF result.raised
              THEN \* CalculationResultError
                   /\ group' = group
                   /\ exc' = [exc EXCEPT ![w] = "error"]
                   /\ pc' = [pc EXCEPT ![w] = "release"]
              ELSE /\ group' = [group EXCEPT ![w] = billed]
                   /\ exc' = exc
                   /\ pc' = [pc EXCEPT ![w] =
                           IF NoChangeDueToRounding(g.credits_used, billed.credits_used)
                           THEN "release" ELSE "history"]
    /\ UNCHANGED <<task_queue, unfinished, group_locks, perun, influx, history, line,
                   pre, saved, posted, responses, notifications, exceptions, initial, cleanup_vars,
                   object_vars>>

\* mutant: credits_left is taken from credits_used before the bill
BillingEntry_BeforeBill(w) ==
    [timestamp |-> line[w].timestamp,
     credits_left |-> group[w].credits_granted * UnitsPerCredit
                      - Val(local[w].previous_group_credits),
     metric_name |-> MetricOf(w)]

\* BillingHistory of the current measurement
BillingEntry(w) ==
    [timestamp |-> line[w].timestamp,
     credits_left |-> group[w].credits_granted * UnitsPerCredit - Val(group[w].credits_used),
     metric_name |-> MetricOf(w)]

\* update_credits: influx_client.write_billing_history(billing_entry)
WriteBillingHistory(w) ==
    /\ SessionOpen
    /\ pc[w] = "history"
    /\ history' = [history EXCEPT ![ProjectOf(w)] = Append(@, BillingEntry(w))]
    /\ pc' = [pc EXCEPT ![w] = "save"]
    /\ UNCHANGED <<task_queue, unfinished, group_locks, perun, influx, line, group,
                   local, exc, pre, saved, posted, responses, notifications, exceptions, initial, cleanup_vars,
                   object_vars>>

\* mutant: only the value after the bill is compared with the half
HalfOfCreditsCrossed_AfterOnly(previous_group_credits, credits_used, credits_granted) ==
    2 * credits_used > credits_granted * UnitsPerCredit

\* update_credits after group.save() of a billing: raise HalfOfCreditsLeft
\* when credits_used went from at most to more than half of credits_granted
HalfOfCreditsCrossed(previous_group_credits, credits_used, credits_granted) ==
    /\ 2 * previous_group_credits <= credits_granted * UnitsPerCredit
    /\ 2 * credits_used > credits_granted * UnitsPerCredit

AfterSave(w) ==
    IF /\ local[w].previous_group_credits # None
       /\ HalfOfCreditsCrossed(Val(local[w].previous_group_credits),
                                Val(group[w].credits_used), group[w].credits_granted)
    THEN "notification" ELSE "none"

\* Group.save: set_attributes sends credits_used when it has changed
SaveAttributes(w) ==
    /\ SessionOpen
    /\ pc[w] = "save"
    /\ group[w].credits_used_updated
    /\ perun' = [perun EXCEPT ![ProjectOf(w)].credits_used =
                     DenbiCreditsUsed_serialize(group[w].credits_used)]
    /\ saved' = [saved EXCEPT ![w] = TRUE]
    /\ pc' = [pc EXCEPT ![w] = "save_rb"]
    /\ UNCHANGED <<task_queue, unfinished, group_locks, influx, history, line, group,
                   local, exc, pre, posted, responses, notifications, exceptions, initial, cleanup_vars,
                   object_vars>>

\* Group.save: set_resource_bound_attributes sends credits_timestamps when
\* its contents have changed; save returns to update_credits
SaveResourceBound(w) ==
    /\ SessionOpen
    /\ \/ pc[w] = "save_rb"
       \/ pc[w] = "save" /\ ~group[w].credits_used_updated
    /\ perun' = IF ContainerHasChanged(group[w])
                THEN [perun EXCEPT ![ProjectOf(w)].credits_timestamps =
                         DenbiCreditTimestamps_encode(group[w].credits_timestamps)]
                ELSE perun
    /\ saved' = [saved EXCEPT ![w] = TRUE]
    /\ exc' = [exc EXCEPT ![w] = AfterSave(w)]
    /\ pc' = [pc EXCEPT ![w] = "release"]
    /\ UNCHANGED <<task_queue, unfinished, group_locks, influx, history, line, group,
                   local, pre, posted, responses, notifications, exceptions, initial, cleanup_vars,
                   object_vars>>

----------------------------------------------------------------------------
(* Assignment to a read-only attribute *)

\* mutant: the value property has a setter
ReadOnlyValueSet_Assign(current, value) == [value |-> value, raised |-> "none"]

\* ReadOnlyScalarPerunAttribute.value is a property without a setter:
\* assigning raises AttributeError and leaves _value as it is
ReadOnlyValueSet(current, value) == [value |-> current, raised |-> "AttributeError"]

\* values some code may try to give to credits_granted
GrantedValues == {0, 2 * CreditsGranted}

\* group.credits_granted.value = value, attempted while the task holds its
\* connected group, as test_credits_granted_read_only does
AssignCreditsGranted(w, value) ==
    /\ pc[w] \in {"connect_rb", "query", "history", "save"}
    /\ LET assigned == ReadOnlyValueSet(group[w].credits_granted, value) IN
        /\ group' = [group EXCEPT ![w].credits_granted = assigned.value]
        /\ IF assigned.raised = "none"
           THEN UNCHANGED <<exc, pc>>
           ELSE /\ exc' = [exc EXCEPT ![w] = assigned.raised]
                /\ pc' = [pc EXCEPT ![w] = "release"]
    /\ UNCHANGED <<task_queue, unfinished, group_locks, perun, influx, history, line,
                   local, pre, saved, posted, responses, notifications, exceptions, initial,
                   cleanup_vars, object_vars>>

----------------------------------------------------------------------------
(* Failing collaborators *)

\* send_notification raises (SMTP not reachable); nothing is sent
SendNotificationFails(w) ==
    /\ pc[w] = "notify"
    /\ exc' = [exc EXCEPT ![w] = "error"]
    /\ pc' = [pc EXCEPT ![w] = "task_done"]
    /\ UNCHANGED <<task_queue, unfinished, group_locks, perun, influx, history, line,
                   group, local, pre, saved, posted, responses, notifications, exceptions, initial,
                   cleanup_vars, object_vars>>

----------------------------------------------------------------------------
(* stop_worker and close_client_sessions, the on_cleanup handlers *)

\* stop_worker starts: wait_for(task_queue.join(), timeout)
StopWorker ==
    /\ cleanup = "serving"
    /\ cleanup' = "join"
    /\ UNCHANGED <<task_queue, unfinished, group_locks, perun, influx, history, pc, line,
                   group, local, exc, pre, saved, posted, responses, notifications, exceptions,
                   initial, task_workers, drain, object_vars>>

\* for task in app["task_workers"].values(): task.cancel()
CancelWorkers(how) ==
    /\ task_workers' = [w \in Workers |-> "cancelling"]
    /\ drain' = how
    /\ cleanup' = "gather"
    /\ UNCHANGED <<task_queue, unfinished, group_locks, perun, influx, history, pc, line,
                   group, local, exc, pre, saved, posted, responses, notifications, exceptions,
                   initial, object_vars>>

\* task_queue.join() returns: every put has been answered by a task_done
JoinReturns ==
    /\ cleanup = "join"
    /\ unfinished = 0
    /\ CancelWorkers("drained")

\* wait_for raises TimeoutError while records are still unacknowledged
JoinTimeout ==
    /\ cleanup = "join"
    /\ unfinished > 0
    /\ CancelWorkers("timeout")

\* mutant: a cancelled worker always acknowledges
AcksOnCancel_Always(w) == TRUE

\* worker: CancelledError at task_queue.get() is re-raised outside the
\* try/finally; at await shield(...) it runs finally: task_queue.task_done()
AcksOnCancel(w) == pc[w] # "get"

\* worker: CancelledError is thrown into the worker task at its await.  The
\* shielded process_influx_line goes on without it.
WorkerCancelled(w) ==
    /\ task_workers[w] = "cancelling"
    /\ task_workers' = [task_workers EXCEPT ![w] = "ended"]
    /\ unfinished' = IF AcksOnCancel(w) THEN unfinished - 1 ELSE unfinished
    /\ UNCHANGED <<task_queue, group_locks, perun, influx, history, pc, line, group,
                   local, exc, pre, saved, posted, responses, notifications, exceptions, initial,
                   cleanup, drain, object_vars>>

\* process_influx_line returns or raises after its worker has ended: nobody
\* awaits the shielded task any more
DetachedEnd(w) ==
    /\ task_workers[w] = "ended"
    /\ pc[w] = "task_done"
    /\ pc' = [pc EXCEPT ![w] = "get"]
    /\ line' = [line EXCEPT ![w] = NoLine]
    /\ group' = [group EXCEPT ![w] = NoGroup]
    /\ local' = [local EXCEPT ![w] = NoLocal]
    /\ exc' = [exc EXCEPT ![w] = "none"]
    /\ pre' = [pre EXCEPT ![w] = NoSnapshot]
    /\ saved' = [saved EXCEPT ![w] = FALSE]
    /\ UNCHANGED <<task_queue, unfinished, group_locks, perun, influx, history, posted, responses,
                   notifications, exceptions, initial, cleanup_vars, object_vars>>

\* mutant: gather returns with the first worker task that has ended
WorkersEnded_Any == \E w \in Workers : task_workers[w] = "ended"

\* gather waits for every worker task
WorkersEnded == \A w \in Workers : task_workers[w] = "ended"

\* stop_worker: gather(*task_workers, return_exceptions=True) returns
GatherReturns ==
    /\ cleanup = "gather"
    /\ WorkersEnded
    /\ cleanup' = "close"
    /\ UNCHANGED <<task_queue, unfinished, group_locks, perun, influx, history, pc, line,
                   group, local, exc, pre, saved, posted, responses, notifications, exceptions,
                   initial, task_workers, drain, object_vars>>

\* close_client_sessions: the Perun session and the InfluxDB client are closed
close_client_sessions ==
    /\ cleanup = "close"
    /\ cleanup' = "done"
    /\ UNCHANGED <<task_queue, unfinished, group_locks, perun, influx, history, pc, line,
                   group, local, exc, pre, saved, posted, responses, notifications, exceptions,
                   initial, task_workers, drain, object_vars>>

\* a call on the closed session raises
ClosedSessionCall(w) ==
    /\ ~SessionOpen
    /\ StoreCallFails(w)

----------------------------------------------------------------------------

\* the steps of the workers and of the tasks they run
Work ==
    \/ \E w \in Workers : WorkerGet(w)
    \/ \E w \in Workers : AcquireLock(w)
    \/ \E w \in Workers : GroupConnect(w)
    \/ \E w \in Workers : ConnectResourceBound(w)
    \/ \E w \in Workers : QueryPrevious(w)
    \/ \E w \in Workers : WriteBillingHistory(w)
    \/ \E w \in Workers : SaveAttributes(w)
    \/ \E w \in Workers : SaveResourceBound(w)
    \/ \E w \in Workers : ReleaseLock(w)
    \/ \E w \in Workers : SendNotification(w)
    \/ \E w \in Workers : TaskDone(w)

Next ==
    \/ \E l \in Lines : write_and_mirror(l)
    \/ Work

Spec == Init /\ [][Next]_vars

\* the service with calls to Perun, InfluxDB and the mail server that may fail
NextFail ==
    \/ \E l \in VCPULines : write_and_mirror(l)
    \/ Work
    \/ \E w \in Workers : StoreCallFails(w)
    \/ \E w \in Workers : SendNotificationFails(w)

SpecFail == InitBilled /\ [][NextFail]_vars

\* the service with its shutdown
NextStop ==
    \/ \E l \in VCPULines : write_and_mirror(l)
    \/ Work
    \/ StopWorker
    \/ JoinReturns
    \/ JoinTimeout
    \/ \E w \in Workers : WorkerCancelled(w)
    \/ \E w \in Workers : DetachedEnd(w)
    \/ GatherReturns
    \/ close_client_sessions
    \/ \E w \in Workers : ClosedSessionCall(w)

SpecStop == InitBilled /\ [][NextStop]_vars

\* the service receiving records it drops among records it bills
NextDrop ==
    \/ \E l \in DropLines : write_and_mirror(l)
    \/ Work

SpecDrop == InitDrop /\ [][NextDrop]_vars

\* the service with code that tries to change credits_granted
NextReadOnly ==
    \/ \E l \in VCPULines : write_and_mirror(l)
    \/ Work
    \/ \E w \in Workers, value \in GrantedValues : AssignCreditsGranted(w, value)

SpecReadOnly == InitBilled /\ [][NextReadOnly]_vars

\* a subclass of Metric is defined with the given names
DefineMetric(name, friendly_name) ==
    /\ registry.defined < MaxClasses
    /\ registry' = init_subclass(registry, registry.defined + 1, name, friendly_name)
    /\ UNCHANGED <<task_queue, unfinished, group_locks, perun, influx, history, pc, line,
                   group, local, exc, pre, saved, posted, responses, notifications,
                   exceptions, initial, cleanup_vars, billing, attribute>>

\* subclasses of Metric are defined one after the other
NextRegistry ==
    \E name \in {None} \cup {Some(n) : n \in MetricNames},
       friendly_name \in {None} \cup {Some(f) : f \in FriendlyNames} :
        DefineMetric(name, friendly_name)

SpecRegistry == InitRegistry /\ [][NextRegistry]_vars

\* calculate_credits(measurement1, measurement2)
CalculateForward ==
    /\ billing.forward = None
    /\ billing' = [billing EXCEPT !.forward =
            Some(calculate_credits(billing.metric, billing.measurement1, billing.measurement2))]
    /\ UNCHANGED <<task_queue, unfinished, group_locks, perun, influx, history, pc, line,
                   group, local, exc, pre, saved, posted, responses, notifications,
                   exceptions, initial, cleanup_vars, registry, attribute>>

\* calculate_credits(measurement2, measurement1)
CalculateBackward ==
    /\ billing.backward = None
    /\ billing' = [billing EXCEPT !.backward =
            Some(calculate_credits(billing.metric, billing.measurement2, billing.measurement1))]
    /\ UNCHANGED <<task_queue, unfinished, group_locks, perun, influx, history, pc, line,
                   group, local, exc, pre, saved, posted, responses, notifications,
                   exceptions, initial, cleanup_vars, registry, attribute>>

NextBilling == CalculateForward \/ CalculateBackward

SpecBilling == InitBilling /\ [][NextBilling]_vars

\* the variables an operation on an attribute leaves alone
pipeline_vars ==
    <<task_queue, unfinished, group_locks, perun, influx, history, pc, line, group,
      local, exc, pre, saved, posted, responses, notifications, exceptions, initial,
      cleanup_vars, registry, billing>>

\* attr.value = value on the scalar attribute
AssignScalar(value) ==
    /\ LET result == ScalarValueSet(attribute.scalar, value) IN
        attribute' = [attribute EXCEPT !.scalar = result.attr,
                                       !.last = [op |-> "assign", value |-> value],
                                       !.raised = result.raised]
    /\ UNCHANGED pipeline_vars

\* attr.value[metric] = timestamp on the container attribute
StoreInContainer(metric, timestamp) ==
    /\ attribute' = [attribute EXCEPT !.container.credits_timestamps[metric] = Some(timestamp),
                                      !.last = [op |-> "store", value |-> None],
                                      !.raised = "none"]
    /\ UNCHANGED pipeline_vars

\* del attr.value[metric] on the container attribute
RemoveFromContainer(metric) ==
    /\ attribute.container.credits_timestamps[metric] # None
    /\ attribute' = [attribute EXCEPT !.container.credits_timestamps[metric] = None,
                                      !.last = [op |-> "remove", value |-> None],
                                      !.raised = "none"]
    /\ UNCHANGED pipeline_vars

\* attr.has_changed = value on the container attribute
SetContainerHasChanged(value) ==
    /\ LET result == ContainerSetHasChanged(attribute.container, value) IN
        attribute' = [attribute EXCEPT
            !.container = result.attr,
            !.snapshot = IF result.raised = "none"
                         THEN attribute.container.credits_timestamps
                         ELSE attribute.snapshot,
            !.last = [op |-> IF value THEN "mark" ELSE "reset", value |-> None],
            !.raised = result.raised]
    /\ UNCHANGED pipeline_vars

\* attr.value = contents on the container attribute
AssignContainer(contents) ==
    /\ LET result == ContainerValueSet(attribute.container, contents) IN
        attribute' = [attribute EXCEPT !.container = result.attr,
                                       !.last = [op |-> "replace", value |-> None],
                                       !.raised = result.raised]
    /\ UNCHANGED pipeline_vars

NextAttribute ==
    \/ \E value \in ScalarValues : AssignScalar(value)
    \/ \E metric \in Metrics, timestamp \in ContainerTimes : StoreInContainer(metric, timestamp)
    \/ \E metric \in Metrics : RemoveFromContainer(metric)
    \/ \E value \in BOOLEAN : SetContainerHasChanged(value)
    \/ \E contents \in ContainerValues : AssignContainer(contents)

SpecAttribute == InitAttribute /\ [][NextAttribute]_vars

\* the service receiving requests of several lines
NextWrite ==
    \/ \E body \in Bodies : influxdb_write_endpoint(body)
    \/ Work

SpecWrite == InitBilled /\ [][NextWrite]_vars

----------------------------------------------------------------------------
(* Group.save *)

MaxSaves == 2

\* the annotations of Group that name a PerunAttribute
GroupAttributes == {"email", "credits_granted", "credits_used", "credits_timestamps"}

\* PerunAttribute.is_resource_bound: "group_resource" is part of the
\* namespace, which holds for DenbiCreditTimestamps only
is_resource_bound(name) == name = "credits_timestamps"

\* ToEmail.perun_decode: the list of addresses
Addresses == {<<>>, <<"a@denbi">>}

\* what Perun holds for a group: its attributes and the list toEmail
SaveStores ==
    {[attributes |-> PerunGroup(used, timestamps), email |-> email] :
        used \in {None, Some(0)},
        timestamps \in {NoTimestamps, [NoTimestamps EXCEPT ![VCPUMetric] = Some(1)]},
        email \in Addresses}

\* Group.connect on a group assigned to its resource: every attribute is
\* constructed from the value Perun returned
Connected(store) ==
    [group |->
        [credits_granted |-> DenbiCreditsGranted_decode(store.attributes.credits_granted),
         credits_used |-> DenbiCreditsUsed_deserialize(store.attributes.credits_used),
         credits_used_updated |-> FALSE,
         credits_timestamps |-> DenbiCreditTimestamps_decode(store.attributes.credits_timestamps),
         credits_timestamps_copy |-> DenbiCreditTimestamps_decode(store.attributes.credits_timestamps)],
     email |-> store.email,
     email_copy |-> store.email,
     assigned_resource |-> TRUE]

\* attr.has_changed of the attribute of the group with this name
HasChanged(g, name) ==
    IF name = "credits_used" THEN g.group.credits_used_updated
    ELSE IF name = "credits_timestamps" THEN ContainerHasChanged(g.group)
    ELSE IF name = "email" THEN g.email_copy # g.email
    ELSE \* ReadOnlyScalarPerunAttribute: _updated keeps its class default
         FALSE

\* mutant: every attribute is collected
CollectChanged_All(g, save_all) == GroupAttributes

\* Group.save: if attr.has_changed or _save_all
CollectChanged(g, save_all) ==
    {name \in GroupAttributes : HasChanged(g, name) \/ save_all}

\* what set_attributes and set_resource_bound_attributes leave in Perun:
\* to_perun_dict of every attribute sent
Written(store, g, sent) ==
    [attributes |->
        [store.attributes EXCEPT
            !.credits_granted = IF "credits_granted" \in sent
                                THEN Str(g.group.credits_granted) ELSE @,
            !.credits_used = IF "credits_used" \in sent
                             THEN DenbiCreditsUsed_serialize(g.group.credits_used) ELSE @,
            !.credits_timestamps = IF "credits_timestamps" \in sent
                                   THEN DenbiCreditTimestamps_encode(g.group.credits_timestamps)
                                   ELSE @],
     email |-> IF "email" \in sent THEN g.email ELSE store.email]

\* the calls one save issues: setAttributes with the collected attributes
\* that are not bound to a resource, then setAttributes with the resource
\* for those that are; a call is only made for a list that is not empty
SaveCalls(g, save_all) ==
    LET collected == CollectChanged(g, save_all)
        changed_attrs == {name \in collected : ~is_resource_bound(name)}
        changed_resource_bound_attrs == {name \in collected : is_resource_bound(name)}
    IN  (IF changed_attrs # {}
         THEN <<[call |-> "set_attributes", attributes |-> changed_attrs]>>
         ELSE <<>>)
        \o (IF changed_resource_bound_attrs # {} /\ g.assigned_resource
            THEN <<[call |-> "set_resource_bound_attributes",
                    attributes |-> changed_resource_bound_attrs]>>
            ELSE <<>>)

\* a group has been connected and nothing has been assigned or saved
InitSave ==
    /\ InitState([p \in Projects |-> DropGroups(p)])
    /\ influx = InitInflux(perun, {})
    /\ registry = ImportedRegistry
    /\ billing = NoBilling
    /\ \E store \in SaveStores :
          attribute = [object |-> Connected(store),
                       store |-> store,
                       calls |-> <<>>,
                       saves |-> 0,
                       save_all |-> FALSE]

\* group.credits_used.value = value
AssignCreditsUsed(value) ==
    /\ attribute' = [attribute EXCEPT !.object.group = ScalarSet(@, value)]
    /\ UNCHANGED pipeline_vars

\* group.credits_timestamps.value[metric] = timestamp, or del of the entry
SetCreditTimestamp(metric, timestamp) ==
    /\ attribute' = [attribute EXCEPT !.object.group.credits_timestamps[metric] = timestamp]
    /\ UNCHANGED pipeline_vars

\* group.email.value.append(address) or .clear()
SetEmail(addresses) ==
    /\ attribute' = [attribute EXCEPT !.object.email = addresses]
    /\ UNCHANGED pipeline_vars

\* await group.save(_save_all)
GroupSave(save_all) ==
    /\ attribute.saves < MaxSaves
    /\ LET calls == SaveCalls(attribute.object, save_all)
           sent == UNION {calls[i].attributes : i \in 1..Len(calls)}
       IN  attribute' = [attribute EXCEPT
               !.store = Written(attribute.store, attribute.object, sent),
               !.calls = @ \o calls,
               !.saves = @ + 1,
               !.save_all = save_all]
    /\ UNCHANGED pipeline_vars

NextSave ==
    \/ \E value \in {Some(0), Some(10)} : AssignCreditsUsed(value)
    \/ \E metric \in Metrics, timestamp \in {None, Some(1)} :
          SetCreditTimestamp(metric, timestamp)
    \/ \E addresses \in Addresses : SetEmail(addresses)
    \/ \E save_all \in BOOLEAN : GroupSave(save_all)

SpecSave == InitSave /\ [][NextSave]_vars

----------------------------------------------------------------------------
(* The time-series query *)

MaxPoints == 3

\* the tag location_id of a usage measurement
Locations == {1, 2}

\* the points InfluxDB may hold: it keeps one point per measurement, tag set
\* and timestamp
StoredPoints ==
    [name : Metrics, project_name : Projects, location_id : Locations,
     timestamp : Times, value : {10}]

\* SELECT * FROM measurement WHERE project_name = '...'
Selected(db, measurement, project_name) ==
    {point \in db : point.name = measurement /\ point.project_name = project_name}

\* ORDER BY time DESC: the selected points, later timestamps first; the
\* order among points of one timestamp is the server's
DescOrders(points) ==
    {order \in [1..Cardinality(points) -> points] :
        /\ \A i \in 1..Cardinality(points), j \in 1..Cardinality(points) :
              i # j => order[i] # order[j]
        /\ \A i \in 1..Cardinality(points), j \in 1..Cardinality(points) :
              i < j => order[i].timestamp >= order[j].timestamp}

\* dict[point.timestamp] = point: a new key is appended, the value of a key
\* that is present is replaced
DictSet(dict, point) ==
    IF \E i \in 1..Len(dict) : dict[i].timestamp = point.timestamp
    THEN [i \in 1..Len(dict) |->
            IF dict[i].timestamp = point.timestamp THEN point ELSE dict[i]]
    ELSE Append(dict, point)

\* previous_measurements: {point.timestamp: point async for point in ...},
\* the dict as the sequence of its values in key order
RECURSIVE DictOf(_, _)
DictOf(dict, points) ==
    IF points = <<>> THEN dict
    ELSE DictOf(DictSet(dict, Head(points)), Tail(points))

\* the database is empty; the points of p1 and one metric since `since`
\* will be wanted
InitQuery ==
    /\ InitState([p \in Projects |-> DropGroups(p)])
    /\ influx = InitInflux(perun, {})
    /\ registry = ImportedRegistry
    /\ attribute = NoAttribute
    /\ \E since \in Times :
          billing = [db |-> {}, measurement |-> VCPUMetric, project_name |-> "p1",
                     since |-> since, source |-> None, yielded |-> None,
                     result |-> None]

\* InfluxDB stores a point before the query is made
StorePoint(point) ==
    /\ billing.source = None
    /\ Cardinality(billing.db) < MaxPoints
    /\ point \notin billing.db
    /\ billing' = [billing EXCEPT !.db = @ \cup {point}]
    /\ UNCHANGED <<task_queue, unfinished, group_locks, perun, influx, history, pc, line,
                   group, local, exc, pre, saved, posted, responses, notifications,
                   exceptions, initial, cleanup_vars, registry, attribute>>

\* query_points: InfluxDB answers the query
QueryPoints ==
    /\ billing.source = None
    /\ \E order \in DescOrders(Selected(billing.db, billing.measurement,
                                        billing.project_name)) :
          billing' = [billing EXCEPT !.source = Some(order)]
    /\ UNCHANGED <<task_queue, unfinished, group_locks, perun, influx, history, pc, line,
                   group, local, exc, pre, saved, posted, responses, notifications,
                   exceptions, initial, cleanup_vars, registry, attribute>>

\* query_points_since run to its end over the answer
QueryPointsSince ==
    /\ billing.source # None
    /\ billing.yielded = None
    /\ billing' = [billing EXCEPT
            !.yielded = Some(query_points_since(Val(billing.source), billing.since))]
    /\ UNCHANGED <<task_queue, unfinished, group_locks, perun, influx, history, pc, line,
                   group, local, exc, pre, saved, posted, responses, notifications,
                   exceptions, initial, cleanup_vars, registry, attribute>>

\* previous_measurements over the answer
PreviousMeasurements ==
    /\ billing.source # None
    /\ billing.result = None
    /\ billing' = [billing EXCEPT
            !.result = Some(DictOf(<<>>, query_points_since(Val(billing.source),
                                                            billing.since)))]
    /\ UNCHANGED <<task_queue, unfinished, group_locks, perun, influx, history, pc, line,
                   group, local, exc, pre, saved, posted, responses, notifications,
                   exceptions, initial, cleanup_vars, registry, attribute>>

NextQuery ==
    \/ \E point \in StoredPoints : StorePoint(point)
    \/ QueryPoints
    \/ QueryPointsSince
    \/ PreviousMeasurements

SpecQuery == InitQuery /\ [][NextQuery]_vars

----------------------------------------------------------------------------
(* The line protocol *)

MaxLen == 2

\* A text is a sequence of characters; a key or a number written by str()
\* holds none of the separators and is one element of the sequence.  The
\* characters are a letter and those the line protocol gives a meaning to.
Chars == {"a", " ", ",", "=", "\""}
Texts == UNION {[1..n -> Chars] : n \in 0..MaxLen}

\* nanoseconds per microsecond, scaled down from 1000
NsPerUs == 4

\* the error of the float arithmetic in int(value.timestamp() * 1e9), below
\* half a microsecond
FloatErrors == {-1, 0, 1}

\* the points of UsageMeasurement: measurement, timestamp (in microseconds),
\* the tags location_id and project_name, the field value
UsagePoints ==
    [measurement : Texts, timestamp : Times, location_id : Locations,
     project_name : Texts, value : Values]

\* str.split(sep): the pieces between the separators, empty ones included
RECURSIVE SplitOn(_, _)
SplitOn(text, sep) ==
    IF text = <<>> THEN <<<<>>>>
    ELSE LET rest == SplitOn(Tail(text), sep)
         IN  IF Head(text) = sep
             THEN <<<<>>>> \o rest
             ELSE <<<<Head(text)>> \o Head(rest)>> \o Tail(rest)

\* str.strip().split(): the pieces between runs of whitespace
SplitWhitespace(text) == SelectSeq(SplitOn(text, " "), LAMBDA piece : piece # <<>>)

\* str.split(sep, 1): the text before and after the first separator, or the
\* text alone when it holds none
SplitFirst(text, sep) ==
    IF \E i \in 1..Len(text) : text[i] = sep
    THEN LET first == CHOOSE i \in 1..Len(text) :
                          text[i] = sep /\ \A j \in 1..(i - 1) : text[j] # sep
         IN  <<SubSeq(text, 1, first - 1), SubSeq(text, first + 1, Len(text))>>
    ELSE <<text>>

\* str.strip('"')
RECURSIVE StripLeft(_, _)
StripLeft(text, char) ==
    IF text # <<>> /\ Head(text) = char THEN StripLeft(Tail(text), char) ELSE text
RECURSIVE StripRight(_, _)
StripRight(text, char) ==
    IF text # <<>> /\ text[Len(text)] = char
    THEN StripRight(SubSeq(text, 1, Len(text) - 1), char) ELSE text
Strip(text, char) == StripRight(StripLeft(text, char), char)

\* str() of an int and of a float without fraction
IntText(n) == <<ToString(n)>>
FloatText(v) == <<ToString(v) \o ".0">>

\* int(text) and float(text): None stands for ValueError
IntOf(text, range) ==
    IF \E n \in range : text = IntText(n)
    THEN Some(CHOOSE n \in range : text = IntText(n)) ELSE None
FloatOf(text) ==
    IF \E v \in Values : text = FloatText(v)
    THEN Some(CHOOSE v \in Values : text = FloatText(v)) ELSE None

\* _DatetimeSerializer.serialize: int(value.timestamp() * 1e9)
DatetimeSerialize(timestamp, error) == timestamp * NsPerUs + error
Nanoseconds == {DatetimeSerialize(t, e) : t \in Times, e \in FloatErrors}

\* _DatetimeSerializer.deserialize: datetime.fromtimestamp(int(value) / 1e9)
\* rounds to the nearest microsecond
DatetimeDeserialize(ns) == Quantize(ns, NsPerUs)

\* InfluxDBPoint.to_lineprotocol of a UsageMeasurement: measurement and tags
\* joined by commas, the field, the timestamp formatted with ".0f", joined
\* by spaces; nothing is escaped
to_lineprotocol(point, error) ==
    point.measurement \o <<",">>
        \o <<"location_id", "=">> \o IntText(point.location_id) \o <<",">>
        \o <<"project_name", "=">> \o point.project_name
        \o <<" ">> \o <<"value", "=">> \o FloatText(point.value)
        \o <<" ">> \o IntText(DatetimeSerialize(point.timestamp, error))

\* every pair of a tag set or field set split at its first "="
KeyValuePairs(set) ==
    LET pairs == SplitOn(set, ",")
    IN  [i \in 1..Len(pairs) |-> SplitFirst(pairs[i], "=")]

\* tag_field_dict[name]: the value of the last pair with this key
HasKey(pairs, name) == \E i \in 1..Len(pairs) : pairs[i][1] = name
GetKey(pairs, name) ==
    LET last == CHOOSE i \in 1..Len(pairs) :
                    pairs[i][1] = name /\ \A j \in (i + 1)..Len(pairs) : pairs[j][1] # name
    IN  pairs[last][2]

NoPoint ==
    [measurement |-> <<>>, timestamp |-> 0, location_id |-> 0, project_name |-> <<>>,
     value |-> 0]

\* InfluxDBPoint.from_lineprotocol for UsageMeasurement on the text of a
\* line: the three segments, measurement and tag set, the pairs of tags and
\* fields, the timestamp, then every field of the class
decode_lineprotocol(influx_line) ==
    LET segments == SplitWhitespace(influx_line)
        measurement_and_tag == SplitFirst(segments[1], ",")
        pairs == KeyValuePairs(measurement_and_tag[2]) \o KeyValuePairs(segments[2])
        timestamp == IntOf(segments[3], Nanoseconds)
        location_id == IntOf(GetKey(pairs, <<"location_id">>), Locations)
        value == FloatOf(Strip(GetKey(pairs, <<"value">>), "\""))
        failed(exception) == [raised |-> exception, point |-> NoPoint]
    IN  IF Len(segments) # 3 THEN failed("ValueError")
        ELSE IF Len(measurement_and_tag) # 2 THEN failed("ValueError")
        ELSE IF \E i \in 1..Len(pairs) : Len(pairs[i]) # 2 THEN failed("ValueError")
        ELSE IF timestamp = None THEN failed("ValueError")
        ELSE IF ~HasKey(pairs, <<"location_id">>) THEN failed("KeyError")
        ELSE IF location_id = None THEN failed("ValueError")
        ELSE IF ~HasKey(pairs, <<"project_name">>) THEN failed("KeyError")
        ELSE IF ~HasKey(pairs, <<"value">>) THEN failed("KeyError")
        ELSE IF value = None THEN failed("ValueError")
        ELSE [raised |-> "none",
              point |-> [measurement |-> measurement_and_tag[1],
                         timestamp |-> DatetimeDeserialize(Val(timestamp)),
                         location_id |-> Val(location_id),
                         project_name |-> GetKey(pairs, <<"project_name">>),
                         value |-> Val(value)]]

\* a usage measurement has been constructed
InitLine ==
    /\ InitState([p \in Projects |-> DropGroups(p)])
    /\ influx = InitInflux(perun, {})
    /\ registry = ImportedRegistry
    /\ attribute = NoAttribute
    /\ \E point \in UsagePoints :
          billing = [point |-> point, influx_line |-> None, decoded |-> None]

\* point.to_lineprotocol()
ToLineprotocol ==
    /\ billing.influx_line = None
    /\ \E error \in FloatErrors :
          billing' = [billing EXCEPT !.influx_line = Some(to_lineprotocol(billing.point, error))]
    /\ UNCHANGED <<task_queue, unfinished, group_locks, perun, influx, history, pc, line,
                   group, local, exc, pre, saved, posted, responses, notifications,
                   exceptions, initial, cleanup_vars, registry, attribute>>

\* UsageMeasurement.from_lineprotocol(line)
FromLineprotocol ==
    /\ billing.influx_line # None
    /\ billing.decoded = None
    /\ billing' = [billing EXCEPT !.decoded = Some(decode_lineprotocol(Val(billing.influx_line)))]
    /\ UNCHANGED <<task_queue, unfinished, group_locks, perun, influx, history, pc, line,
                   group, local, exc, pre, saved, posted, responses, notifications,
                   exceptions, initial, cleanup_vars, registry, attribute>>

NextLine == ToLineprotocol \/ FromLineprotocol

SpecLine == InitLine /\ [][NextLine]_vars

----------------------------------------------------------------------------
(* The lock registry *)

MaxTasks == 3

\* the calls of process_influx_line that are under way at the same time
LockTasks == 1..MaxTasks

\* a Lock object is known by the order of its creation
LockIds == 1..Cardinality(Projects)

\* defaultdict.__getitem__ of a factory that always builds a new lock and
\* stores it, also over an existing one
AlwaysNewLock(locks, created, name) ==
    [lock |-> created + 1,
     locks |-> [locks EXCEPT ![name] = Some(created + 1)],
     created |-> created + 1]

\* group_locks[name] of defaultdict(create_new_group_lock): the stored
\* lock, or for a missing key a new Lock that is stored under the key
\* after projects_processed_counter was incremented
GetGroupLock(locks, created, name) ==
    IF locks[name] # None
    THEN [lock |-> Val(locks[name]), locks |-> locks, created |-> created]
    ELSE [lock |-> created + 1,
          locks |-> [locks EXCEPT ![name] = Some(created + 1)],
          created |-> created + 1]

\* create_app: an empty defaultdict, no Lock built, no task under way
InitLocks ==
    /\ InitState([p \in Projects |-> DropGroups(p)])
    /\ influx = InitInflux(perun, {})
    /\ registry = ImportedRegistry
    /\ billing = NoBilling
    /\ attribute = [group_locks |-> [p \in Projects |-> None],
                    created |-> 0,
                    locked |-> [id \in LockIds |-> None],
                    task |-> [t \in LockTasks |-> [at |-> "idle", name |-> None,
                                                   lock |-> None]]]

LocksUnchanged ==
    UNCHANGED <<task_queue, unfinished, group_locks, perun, influx, history, pc, line,
                group, local, exc, pre, saved, posted, responses, notifications,
                exceptions, initial, cleanup_vars, registry, billing>>

\* `async with group_locks[perun_group.name]`: the lookup and Lock.acquire
\* up to its first suspension; a free lock is taken without suspending
ReferenceLock(t, name) ==
    /\ attribute.task[t].at = "idle"
    /\ LET got == GetGroupLock(attribute.group_locks, attribute.created, name)
           free == attribute.locked[got.lock] = None
       IN  attribute' =
               [attribute EXCEPT
                   !.group_locks = got.locks,
                   !.created = got.created,
                   !.locked[got.lock] = IF free THEN Some(t) ELSE @,
                   !.task[t] = [at |-> IF free THEN "holding" ELSE "waiting",
                                name |-> Some(name), lock |-> Some(got.lock)]]
    /\ LocksUnchanged

\* Lock.acquire resumes after the holder released the lock
AcquireWaiting(t) ==
    /\ attribute.task[t].at = "waiting"
    /\ attribute.locked[Val(attribute.task[t].lock)] = None
    /\ attribute' = [attribute EXCEPT !.locked[Val(attribute.task[t].lock)] = Some(t),
                                      !.task[t].at = "holding"]
    /\ LocksUnchanged

\* the end of the `async with` block: Lock.release, the task returns
ReleaseHeld(t) ==
    /\ attribute.task[t].at = "holding"
    /\ attribute' = [attribute EXCEPT !.locked[Val(attribute.task[t].lock)] = None,
                                      !.task[t] = [at |-> "idle", name |-> None,
                                                   lock |-> None]]
    /\ LocksUnchanged

NextLocks ==
    \E t \in LockTasks :
        \/ \E name \in Projects : ReferenceLock(t, name)
        \/ AcquireWaiting(t)
        \/ ReleaseHeld(t)

SpecLocks == InitLocks /\ [][NextLocks]_vars

----------------------------------------------------------------------------
(* Two runs on the same records *)

\* a request body with two measurements of one project and one metric
PairBodies == [1..2 -> VCPULines]

\* every record has been acknowledged and the workers wait for the next
Settled ==
    /\ posted # <<>>
    /\ task_queue = <<>>
    /\ unfinished = 0
    /\ \A w \in Workers : pc[w] = "get"

\* The service is started again on the state Perun and InfluxDB had at
\* first, as the fixtures do for every test; what the first run received and
\* left in Perun is kept for comparison.
Restart ==
    /\ Settled
    /\ billing = None
    /\ billing' = Some([posted |-> posted,
                        credits_used |-> PersistedUsed("p1"),
                        credits_timestamps |-> PersistedTimestamps("p1")])
    /\ perun' = initial.perun
    /\ influx' = initial.influx
    /\ history' = [p \in Projects |-> <<>>]
    /\ group_locks' = [p \in Projects |-> NoLock]
    /\ posted' = <<>>
    /\ responses' = <<>>
    /\ notifications' = [p \in Projects |-> 0]
    /\ exceptions' = 0
    /\ UNCHANGED <<task_queue, unfinished, pc, line, group, local, exc, pre, saved,
                   initial, cleanup_vars, registry, attribute>>

\* the service receives both measurements in one request, so that both are
\* stored before either is processed, once and once again after a restart
NextOrder ==
    \/ \E body \in PairBodies : influxdb_write_endpoint(body)
    \/ Work
    \/ Restart

SpecOrder == InitBilled /\ [][NextOrder]_vars

----------------------------------------------------------------------------
(* Lines of points InfluxDB does not hold *)

\* p1 was billed before for both metrics; retention may have removed the
\* points at the last-billed timestamps
InitExpired ==
    /\ Init
    /\ perun["p1"] = PerunGroup(Some(0), [m \in Metrics |-> Some(1)])

\* http_client.post("/write", data=line): influxdb_write_endpoint puts the
\* line on the task queue; the point is not stored in InfluxDB
post_write(l) ==
    /\ cleanup = "serving"
    /\ Len(posted) < MaxPosts
    /\ task_queue' = PutAll(task_queue, <<l>>)
    /\ unfinished' = unfinished + 1
    /\ posted' = Append(posted, l)
    /\ responses' = Append(responses, HTTPAccepted)
    /\ UNCHANGED <<group_locks, perun, influx, history, pc, line, group, local, exc, pre,
                   saved, notifications, exceptions, initial, cleanup_vars, object_vars>>

\* the service receiving lines whose points are stored and lines whose
\* points are not
NextExpired ==
    \/ \E l \in VCPULines : write_and_mirror(l)
    \/ \E l \in VCPULines : post_write(l)
    \/ Work

SpecExpired == InitExpired /\ [][NextExpired]_vars

----------------------------------------------------------------------------
(* Notifications next to billing *)

\* the service receiving measurements of both metrics of one project, with
\* a mail server that may fail
NextNotify ==
    \/ \E l \in {u \in UsageLines : u.project_name = "p1"} : write_and_mirror(l)
    \/ Work
    \/ \E w \in Workers : SendNotificationFails(w)

SpecNotify == InitBilled /\ [][NextNotify]_vars

----------------------------------------------------------------------------
(* The running service under fair scheduling *)

\* whatever worker w and the task it runs can do next; a call to Perun,
\* InfluxDB or the mail server returns or raises
WorkerStep(w) ==
    \/ WorkerGet(w)
    \/ AcquireLock(w)
    \/ GroupConnect(w)
    \/ ConnectResourceBound(w)
    \/ QueryPrevious(w)
    \/ WriteBillingHistory(w)
    \/ SaveAttributes(w)
    \/ SaveResourceBound(w)
    \/ ReleaseLock(w)
    \/ SendNotification(w)
    \/ TaskDone(w)
    \/ StoreCallFails(w)
    \/ SendNotificationFails(w)

\* measurements of one metric of two projects, newer than what was billed
LiveLines == {l \in UsageLines : l.name = VCPUMetric /\ l.timestamp = MaxTime}

\* the service receiving measurements of two projects, with calls that may
\* fail and without a shutdown
NextLive ==
    \/ \E l \in LiveLines : write_and_mirror(l)
    \/ \E w \in Workers : WorkerStep(w)

\* The event loop resumes every coroutine that can go on: a worker whose
\* get, lock or call can complete is not left waiting forever.
SpecLive ==
    /\ InitBilled
    /\ [][NextLive]_vars
    /\ \A w \in Workers : WF_vars(WorkerStep(w))

----------------------------------------------------------------------------
(* Properties *)

\* between acquiring the project's lock and releasing it
InCriticalSection(w) ==
    pc[w] \in {"connect", "connect_rb", "query", "history", "save", "save_rb", "release"}

\* update_credits has returned or raised and the lock is still held
Finished(w) == pc[w] = "release"

Idle == task_queue = <<>> /\ \A w \in Workers : pc[w] = "get"

Num(o) == IF o = None THEN 0 ELSE Val(o)

\* C1: at every moment and for every project at most one task is between
\* acquiring that project's lock and releasing it.
MutualExclusion ==
    \A w1, w2 \in Workers :
        (w1 # w2 /\ InCriticalSection(w1) /\ InCriticalSection(w2))
            => ProjectOf(w1) # ProjectOf(w2)

\* a task waits for the lock of a project while another task is inside
MutualExclusionWitness ==
    \E w1, w2 \in Workers :
        /\ InCriticalSection(w1)
        /\ pc[w2] = "lock"
        /\ ProjectOf(w1) = ProjectOf(w2)

\* what update_credits bills for line l when it runs alone on the given
\* attribute store and time series
BilledAlone(store, db, l) ==
    LET used == DenbiCreditsUsed_deserialize(store[l.project_name].credits_used)
        timestamps == DenbiCreditTimestamps_decode(store[l.project_name].credits_timestamps)
        last == timestamps[l.name]
        points == previous_measurements(db, l.project_name, l.name, Val(last))
        prior == Lookup(points, Val(last))
        result == calculate_credits(l.name, l, Val(prior))
    IN  IF used = None /\ timestamps # NoTimestamps THEN 0
        ELSE IF last = None THEN 0
        ELSE IF IsStale(l.timestamp, last) THEN 0
        ELSE IF prior = None THEN 0
        ELSE IF l.value = Val(prior).value THEN 0
        ELSE IF result.raised THEN 0
        ELSE result.credits

\* the time series at the start, with the point of l mirrored into it
MirroredAlone(l) ==
    [initial.influx EXCEPT ![<<l.project_name, l.name>>][l.timestamp] = Some(l.value)]

\* exactly two usage lines of one project were posted and both tasks ended
TwoTasksEnded ==
    /\ Len(posted) = 2
    /\ Idle
    /\ posted[1] \in UsageLines
    /\ posted[2] \in UsageLines
    /\ posted[1].project_name = posted[2].project_name

IncreaseIsSum ==
    LET p == posted[1].project_name IN
    Num(PersistedUsed(p)) - Num(DenbiCreditsUsed_deserialize(initial.perun[p].credits_used))
        = BilledAlone(initial.perun, MirroredAlone(posted[1]), posted[1])
          + BilledAlone(initial.perun, MirroredAlone(posted[2]), posted[2])

\* C2 as stated: after two tasks of one project, credits_used has grown by
\* the sum of what each would bill alone from the initial state.
NoLostUpdateAnyMetric == TwoTasksEnded => IncreaseIsSum

\* C2, amended: after two tasks of one project for two different metrics,
\* credits_used has grown by the sum of what each would bill alone from the
\* initial state.
NoLostUpdate ==
    (TwoTasksEnded /\ posted[1].name # posted[2].name) => IncreaseIsSum

\* both metrics were billed a non-zero amount
NoLostUpdateWitness ==
    /\ TwoTasksEnded
    /\ posted[1].name # posted[2].name
    /\ BilledAlone(initial.perun, MirroredAlone(posted[1]), posted[1]) > 0
    /\ BilledAlone(initial.perun, MirroredAlone(posted[2]), posted[2]) > 0
    /\ Len(history[posted[1].project_name]) = 2

\* C3: the persisted credits_used of a project, once set, never decreases
\* and is never unset.
CreditsUsedMonotonic ==
    [][\A p \in Projects :
          PersistedUsed(p) # None =>
              /\ PersistedUsed(p)' # None
              /\ Val(PersistedUsed(p)') >= Val(PersistedUsed(p))]_vars

\* credits_used has been raised twice and both raises are persisted
CreditsUsedMonotonicWitness ==
    \E p \in Projects :
        /\ Len(history[p]) = 2
        /\ history[p][2].credits_left < history[p][1].credits_left
        /\ PersistedUsed(p) =
             Some(PersistedGranted(p) * UnitsPerCredit - history[p][2].credits_left)

\* C4: the persisted last-billed timestamp of a project and metric, once
\* set, never moves backwards and is never removed.
LastBilledMonotonic ==
    [][\A p \in Projects : \A m \in Metrics :
          PersistedTimestamps(p)[m] # None =>
              /\ PersistedTimestamps(p)'[m] # None
              /\ Val(PersistedTimestamps(p)'[m]) >= Val(PersistedTimestamps(p)[m])]_vars

\* a task has moved a stored timestamp forward
LastBilledMonotonicWitness ==
    \E w \in Workers :
        /\ Finished(w)
        /\ DenbiCreditTimestamps_decode(Val(pre[w].perun).credits_timestamps)[MetricOf(w)] # None
        /\ Val(PersistedTimestamps(ProjectOf(w))[MetricOf(w)]) >
             Val(DenbiCreditTimestamps_decode(Val(pre[w].perun).credits_timestamps)[MetricOf(w)])

----------------------------------------------------------------------------
(* One task against the state it found when it took the lock *)

PreUsed(w) == DenbiCreditsUsed_deserialize(Val(pre[w].perun).credits_used)
PreTimestamps(w) == DenbiCreditTimestamps_decode(Val(pre[w].perun).credits_timestamps)
PreLast(w) == PreTimestamps(w)[MetricOf(w)]
PreGranted(w) == DenbiCreditsGranted_decode(Val(pre[w].perun).credits_granted)
PreExists(w) == Val(pre[w].perun).exists

\* neither the attribute store nor the billing history of the project differ
\* from what they were when the lock was taken
NothingPersisted(w) ==
    /\ perun[ProjectOf(w)] = Val(pre[w].perun)
    /\ history[ProjectOf(w)] = pre[w].history

\* the measurement is newer than the stored last-billed timestamp
Newer(w) == PreLast(w) # None /\ line[w].timestamp > Val(PreLast(w))

\* the value the task read from the time series at the last-billed timestamp
Prior(w) == Lookup(local[w].project_measurements, Val(PreLast(w)))

\* C5: a measurement not newer than the stored last-billed timestamp of its
\* metric changes neither credits_used, nor a timestamp, nor the history,
\* and no save is performed.
StaleChangesNothing ==
    \A w \in Workers :
        (Finished(w) /\ PreLast(w) # None /\ line[w].timestamp <= Val(PreLast(w)))
            => (NothingPersisted(w) /\ ~saved[w])

\* a line with the timestamp of an earlier, committed line of the same
\* metric but another value has been processed
StaleChangesNothingWitness ==
    \E w \in Workers :
        /\ Finished(w)
        /\ Len(posted) = 2
        /\ line[w] = posted[2]
        /\ posted[1].name = posted[2].name
        /\ posted[1].project_name = posted[2].project_name
        /\ posted[1].timestamp = posted[2].timestamp
        /\ posted[1].value # posted[2].value
        /\ Len(pre[w].history) = 1
        /\ pre[w].history[1].timestamp = line[w].timestamp
        /\ PreLast(w) = Some(line[w].timestamp)

\* the measurement is newer, a prior value exists at the stored timestamp,
\* the values differ and calculate_credits returns a non-zero amount
CommitCase(w) ==
    /\ Newer(w)
    /\ PreUsed(w) # None
    /\ Prior(w) # None
    /\ line[w].value # Val(Prior(w)).value
    /\ ~calculate_credits(MetricOf(w), line[w], Val(Prior(w))).raised
    /\ calculate_credits(MetricOf(w), line[w], Val(Prior(w))).credits # 0

\* C6: in the commit case the task leaves last_billed[metric] at the
\* measurement's timestamp, credits_used at its old value plus the credits,
\* and one more history record with that timestamp and
\* credits_left = credits_granted - credits_used.
CommitPersists ==
    \A w \in Workers :
        (Finished(w) /\ CommitCase(w)) =>
            LET c == calculate_credits(MetricOf(w), line[w], Val(Prior(w))).credits
                p == ProjectOf(w)
            IN  /\ PersistedTimestamps(p) =
                     [PreTimestamps(w) EXCEPT ![MetricOf(w)] = Some(line[w].timestamp)]
                /\ PersistedUsed(p) = Some(Val(PreUsed(w)) + c)
                /\ history[p] = Append(pre[w].history,
                        [timestamp |-> line[w].timestamp,
                         credits_left |-> PreGranted(w) * UnitsPerCredit
                                          - (Val(PreUsed(w)) + c),
                         metric_name |-> MetricOf(w)])

\* a commit on top of an earlier commit
CommitPersistsWitness ==
    \E w \in Workers :
        /\ Finished(w)
        /\ CommitCase(w)
        /\ Val(PreUsed(w)) > 0

\* what C7 promises for a metric without a stored timestamp
FirstMeasurementOutcome(w) ==
    /\ PersistedTimestamps(ProjectOf(w)) =
         [PreTimestamps(w) EXCEPT ![MetricOf(w)] = Some(line[w].timestamp)]
    /\ PersistedUsed(ProjectOf(w)) = (IF PreUsed(w) = None THEN Some(0) ELSE PreUsed(w))
    /\ history[ProjectOf(w)] = pre[w].history

EqualValuesChangeNothing ==
    \A w \in Workers :
        (/\ Finished(w)
         /\ Newer(w)
         /\ \E i \in 1..Len(local[w].project_measurements) :
                /\ local[w].project_measurements[i].timestamp = Val(PreLast(w))
                /\ local[w].project_measurements[i].value = line[w].value)
            => (NothingPersisted(w) /\ ~saved[w])

\* an equal value arrived after an earlier bill
EqualValuesChangeNothingWitness ==
    \E w \in Workers :
        /\ Finished(w)
        /\ Newer(w)
        /\ Prior(w) # None
        /\ line[w].value = Val(Prior(w)).value
        /\ Len(pre[w].history) = 1

\* the oldest timestamp among the values returned for the window
OldestTimestamp(points) ==
    CHOOSE t \in {points[i].timestamp : i \in 1..Len(points)} :
        \A i \in 1..Len(points) : t <= points[i].timestamp

\* C9: when no value exists at the stored last-billed timestamp, the task
\* sets last_billed[metric] to the oldest timestamp of the window and leaves
\* credits_used and the history unchanged.
MissingPriorTakesOldest ==
    \A w \in Workers :
        (/\ Finished(w)
         /\ Newer(w)
         /\ local[w].project_measurements # <<>>
         /\ Prior(w) = None) =>
            /\ PersistedTimestamps(ProjectOf(w)) =
                 [PreTimestamps(w) EXCEPT ![MetricOf(w)] =
                     Some(OldestTimestamp(local[w].project_measurements))]
            /\ PersistedUsed(ProjectOf(w)) = PreUsed(w)
            /\ history[ProjectOf(w)] = pre[w].history

\* C10: when the computed credits leave credits_used unchanged at the
\* configured precision, the task persists nothing.
RoundingPersistsNothing ==
    \A w \in Workers :
        (/\ Finished(w)
         /\ Newer(w)
         /\ PreUsed(w) # None
         /\ Prior(w) # None
         /\ line[w].value # Val(Prior(w)).value
         /\ ~calculate_credits(MetricOf(w), line[w], Val(Prior(w))).raised
         /\ Val(PreUsed(w)) + calculate_credits(MetricOf(w), line[w], Val(Prior(w))).credits
              = Val(PreUsed(w)))
            => (NothingPersisted(w) /\ ~saved[w])

\* a higher usage value whose price rounds to zero credits was processed
RoundingPersistsNothingWitness ==
    \E w \in Workers :
        /\ Finished(w)
        /\ Newer(w)
        /\ Prior(w) # None
        /\ line[w].value > Val(Prior(w)).value
        /\ calculate_credits(MetricOf(w), line[w], Val(Prior(w))).credits = 0

----------------------------------------------------------------------------
(* Rounding, notifications and failures *)

\* C11: a measurement priced against the value read at the stored last-billed
\* timestamp is billed the rounded price of the whole difference to that
\* value, and the timestamp advances exactly when that amount is not zero;
\* measurements skipped by the rounding floor in between take nothing away.
AccumulatedDeltaBilled ==
    \A w \in Workers :
        (Finished(w) /\ Newer(w) /\ PreUsed(w) # None) =>
            \A i \in 1..Len(local[w].project_measurements) :
                LET older == local[w].project_measurements[i]
                    c == MetricCalculateCredits(MetricOf(w), line[w].value, older.value)
                IN  (older.timestamp = Val(PreLast(w)) /\ line[w].value >= older.value) =>
                        /\ PersistedUsed(ProjectOf(w)) = Some(Val(PreUsed(w)) + c)
                        /\ PersistedTimestamps(ProjectOf(w))[MetricOf(w)] =
                             IF c = 0 THEN PreLast(w) ELSE Some(line[w].timestamp)

\* the first measurement has been skipped by the rounding floor, the second
\* is billed although its difference to the first rounds to zero as well
AccumulatedDeltaBilledWitness ==
    \E w \in Workers :
        /\ Finished(w)
        /\ Len(posted) = 2
        /\ line[w] = posted[2]
        /\ task_queue = <<>>
        /\ \A v \in Workers \ {w} : pc[v] = "get"
        /\ posted[1].name = posted[2].name
        /\ posted[1].project_name = posted[2].project_name
        /\ PreUsed(w) # None
        /\ PreLast(w) # None
        /\ Val(PreLast(w)) < posted[1].timestamp
        /\ posted[1].timestamp < posted[2].timestamp
        /\ posted[1].value < posted[2].value
        /\ MetricCalculateCredits(MetricOf(w), posted[2].value, posted[1].value) = 0
        /\ PersistedUsed(ProjectOf(w)) = Some(Val(PreUsed(w)) + 1)
        /\ history[ProjectOf(w)] # pre[w].history

\* the tasks of a project that carry a HalfOfCreditsLeft not sent yet
PendingNotifications(p) ==
    {w \in Workers : /\ pc[w] \in {"release", "notify"}
                     /\ exc[w] = "notification"
                     /\ ProjectOf(w) = p}

\* C12: update_credits raises HalfOfCreditsLeft in exactly the tasks that
\* found credits_used at most at half of credits_granted and persisted a
\* value above it; every project gets at most one such notification.
HalfNotifiedOnCrossingOnly ==
    /\ \A w \in Workers :
        Finished(w) =>
            (exc[w] = "notification" <=>
                /\ 2 * Num(PreUsed(w)) <= PreGranted(w) * UnitsPerCredit
                /\ 2 * Num(PersistedUsed(ProjectOf(w))) > PreGranted(w) * UnitsPerCredit)
    /\ \A p \in Projects : notifications[p] + Cardinality(PendingNotifications(p)) <= 1

\* the notification has been sent and a later task has billed the project,
\* which was above half of its grant, without raising another one
HalfNotifiedOnCrossingOnlyWitness ==
    \E w \in Workers :
        /\ Finished(w)
        /\ notifications[ProjectOf(w)] = 1
        /\ PreUsed(w) # None
        /\ 2 * Val(PreUsed(w)) > PreGranted(w) * UnitsPerCredit
        /\ PersistedUsed(ProjectOf(w)) = Some(Val(PreUsed(w)) + 1)
        /\ exc[w] = "none"

\* C13: a running worker whose task ended with an exception counts it,
\* acknowledges the record and waits for the next one; a worker task ends
\* only after stop_worker has cancelled it.
WorkerSurvivesExceptions ==
    [][\A w \in Workers :
        /\ (/\ task_workers[w] = "running"
            /\ pc[w] = "task_done"
            /\ exc[w] = "error"
            /\ pc'[w] # pc[w]) =>
                /\ exceptions' = exceptions + 1
                /\ unfinished' = unfinished - 1
                /\ pc'[w] = "get"
                /\ task_workers'[w] = "running"
        /\ task_workers'[w] # "running" => drain' # "none"]_vars

\* a failed call to Perun or InfluxDB and a failed notification have been
\* counted and every worker waits for the next record
WorkerSurvivesExceptionsWitness ==
    /\ exceptions = 2
    /\ Idle
    /\ unfinished = 0
    /\ \A w \in Workers : task_workers[w] = "running"
    /\ notifications["p1"] = 0
    /\ 2 * Num(PersistedUsed("p1")) > PersistedGranted("p1") * UnitsPerCredit
    /\ Len(history["p1"]) = 1

\* the task has written the billing history or credits_used without the
\* writes that belong to the same commit
HalfWritten(w) ==
    \/ /\ history[ProjectOf(w)] # pre[w].history
       /\ PersistedUsed(ProjectOf(w)) = PreUsed(w)
    \/ /\ PersistedUsed(ProjectOf(w)) # PreUsed(w)
       /\ PersistedTimestamps(ProjectOf(w)) = PreTimestamps(w)

\* C14: a task that has started runs through its history append and both
\* writes of its save although the workers are cancelled; a shutdown never
\* leaves the state of a project half-written.
ShutdownLeavesNothingHalfWritten ==
    \A w \in Workers : Finished(w) => ~HalfWritten(w)

\* C15: stop_worker cancels a worker only when task_queue.join() has
\* returned, every record put being acknowledged, or when the drain timeout
\* has elapsed; it then cancels every worker, and it returns only after all
\* worker tasks have ended.
StopWorkerProtocol ==
    [][/\ (\E w \in Workers : task_workers[w] = "running" /\ task_workers'[w] # "running") =>
            /\ cleanup = "join"
            /\ unfinished = 0 \/ drain' = "timeout"
            /\ \A v \in Workers : task_workers'[v] = "cancelling"
       /\ cleanup' \in {"close", "done"} =>
            \A w \in Workers : task_workers'[w] = "ended"]_vars

\* stop_worker has returned after the timeout, with records left in the queue
StopWorkerProtocolWitness ==
    /\ cleanup = "close"
    /\ drain = "timeout"
    /\ task_queue # <<>>
    /\ \A w \in Workers : task_workers[w] = "ended"

\* the workers that have taken a record and not acknowledged it
Unacknowledged ==
    {w \in Workers : task_workers[w] # "ended" /\ pc[w] # "get"}

\* C16: the records put and not acknowledged are those waiting in the queue
\* and those a live worker has taken, so every record taken is acknowledged
\* once, by task_done after processing or at the cancellation of its worker,
\* and a worker cancelled at get acknowledges nothing; join has returned
\* only with every record acknowledged.
AcknowledgedExactlyOnce ==
    /\ unfinished = Len(task_queue) + Cardinality(Unacknowledged)
    /\ drain = "drained" => unfinished = 0

\* one worker was cancelled while its task was running and has acknowledged
\* its record, the other was cancelled waiting; a record is left in the queue
AcknowledgedExactlyOnceWitness ==
    \E w, v \in Workers :
        /\ task_workers[w] = "ended"
        /\ pc[w] \in StoreCalls
        /\ task_workers[v] = "ended"
        /\ pc[v] = "get"
        /\ Len(posted) = 2
        /\ Len(task_queue) = 1
        /\ unfinished = 1

\* the price of the difference to the value read at the stored last-billed
\* timestamp is negative
NegativeCredits(w) ==
    /\ Newer(w)
    /\ PreUsed(w) # None
    /\ \E i \in 1..Len(local[w].project_measurements) :
        /\ local[w].project_measurements[i].timestamp = Val(PreLast(w))
        /\ MetricCalculateCredits(MetricOf(w), line[w].value,
                                  local[w].project_measurements[i].value) < 0

\* C17: when the price is negative the task ends with
\* CalculationResultError, credits_used, the timestamps and the history are
\* as the task found them, no save was started and the worker is running.
NegativeCreditsRejected ==
    \A w \in Workers :
        (Finished(w) /\ NegativeCredits(w)) =>
            /\ exc[w] = "error"
            /\ NothingPersisted(w)
            /\ ~saved[w]
            /\ task_workers[w] = "running"

\* a usage value below the one billed by an earlier commit was processed
NegativeCreditsRejectedWitness ==
    \E w \in Workers :
        /\ Finished(w)
        /\ NegativeCredits(w)
        /\ Len(pre[w].history) = 1
        /\ Val(PreUsed(w)) > 0

\* credits_used is unset although a last-billed timestamp is stored
UsedMissing(w) ==
    /\ pre[w].perun # None
    /\ PreUsed(w) = None
    /\ PreTimestamps(w) # NoTimestamps

\* C18: a task that finds credits_used unset and a non-empty timestamp map
\* ends with an exception and the store and the history as it found them;
\* its worker counts the exception, acknowledges and waits for the next
\* record.
UsedMissingRejected ==
    [][\A w \in Workers :
        /\ (pc'[w] = "release" /\ UsedMissing(w)') =>
            /\ exc'[w] = "error"
            /\ perun'[ProjectOf(w)'] = Val(pre'[w].perun)
            /\ history'[ProjectOf(w)'] = pre'[w].history
            /\ ~saved'[w]
        /\ (pc[w] = "task_done" /\ UsedMissing(w) /\ pc'[w] # pc[w]) =>
            /\ exceptions' = exceptions + 1
            /\ pc'[w] = "get"
            /\ task_workers'[w] = "running"]_vars

\* the exception of such a task has been counted and the project is as it
\* was
UsedMissingRejectedWitness ==
    /\ exceptions = 1
    /\ Idle
    /\ Len(posted) = 1
    /\ posted[1] \in UsageLines
    /\ unfinished = 0
    /\ initial.perun["p1"].credits_used = None
    /\ DenbiCreditTimestamps_decode(initial.perun["p1"].credits_timestamps) # NoTimestamps
    /\ perun = initial.perun

\* C19: a task appends a record to the billing history if and only if it
\* persists an increase of credits_used, also when one of its store calls
\* fails; it appends at most one record and leaves the earlier ones as they
\* were.
HistoryIffBilled ==
    \A w \in Workers :
        Finished(w) =>
            LET p == ProjectOf(w) IN
            /\ Len(history[p]) \in {Len(pre[w].history), Len(pre[w].history) + 1}
            /\ SubSeq(history[p], 1, Len(pre[w].history)) = pre[w].history
            /\ history[p] # pre[w].history <=> Num(PersistedUsed(p)) > Num(PreUsed(w))

\* the commit of the task is in the history and in the attribute store
Committed(w) ==
    /\ saved[w]
    /\ \E i \in 1..Len(history[ProjectOf(w)]) :
        /\ history[ProjectOf(w)][i].timestamp = line[w].timestamp
        /\ history[ProjectOf(w)][i].metric_name = MetricOf(w)
    /\ Num(PersistedUsed(ProjectOf(w))) >= Val(group[w].credits_used)
    /\ Num(PersistedTimestamps(ProjectOf(w))[MetricOf(w)]) >= line[w].timestamp

\* C20: send_notification is reached only with the history record written
\* and the save of the same task completed; when it raises, credits_used,
\* the timestamps and the history stay as they are and the worker goes on.
NotificationAfterCommit ==
    [][\A w \in Workers :
        /\ pc'[w] = "notify" => Committed(w)'
        /\ (pc[w] = "notify" /\ exc'[w] = "error") =>
            /\ perun' = perun
            /\ history' = history
            /\ pc'[w] = "task_done"
        /\ (pc[w] = "task_done" /\ task_workers[w] = "running" /\ pc'[w] # pc[w]) =>
            /\ pc'[w] = "get"
            /\ task_workers'[w] = "running"]_vars

\* the notification of a completed commit could not be sent
NotificationAfterCommitWitness ==
    \E w \in Workers :
        /\ pc[w] = "task_done"
        /\ exc[w] = "error"
        /\ notifications[ProjectOf(w)] = 0
        /\ Committed(w)
        /\ PersistedTimestamps(ProjectOf(w))[MetricOf(w)] = Some(line[w].timestamp)
        /\ PersistedUsed(ProjectOf(w)) = group[w].credits_used
        /\ 2 * Num(PersistedUsed(ProjectOf(w))) > PersistedGranted(ProjectOf(w)) * UnitsPerCredit

----------------------------------------------------------------------------
(* Records that are dropped *)

\* the task of worker w found that the store does not know its project
GroupUnknown(w) == pre[w].perun # None /\ ~PreExists(w)

\* C21: a task whose project the attribute store does not know ends without
\* an exception, having written nothing to the store and no history record;
\* it releases the lock, sends no notification and is not counted as a worker
\* exception.
GroupNotExistsEndsNormally ==
    [][\A w \in Workers :
        GroupUnknown(w) =>
            /\ pc[w] = "release" =>
                /\ exc[w] = "none"
                /\ ~saved[w]
                /\ NothingPersisted(w)
            /\ (pc[w] = "release" /\ pc'[w] # "release") =>
                /\ pc'[w] = "task_done"
                /\ group_locks'[ProjectOf(w)].holder = None
                /\ notifications' = notifications
            /\ (pc[w] = "task_done" /\ pc'[w] # "task_done") =>
                /\ exceptions' = exceptions
                /\ perun' = perun /\ history' = history /\ influx' = influx]_vars

\* a task of an unknown project has released the lock
GroupNotExistsEndsNormallyWitness ==
    \E w \in Workers :
        /\ pc[w] = "task_done"
        /\ GroupUnknown(w)
        /\ group_locks[ProjectOf(w)] = [created |-> TRUE, holder |-> None]

\* the step in which worker w takes a record from the queue
Takes(w) == pc[w] = "get" /\ pc'[w] # "get"

\* the step in which worker w acknowledges the record it holds
Acknowledges(w) == pc[w] = "task_done" /\ pc'[w] # "task_done"

\* the record worker w holds names no registered metric
NotRegistered(l) == l.name \notin REGISTERED_MEASUREMENTS

\* the record worker w holds names a registered metric and is not decoded
NotDecoded(l) == l.name \in REGISTERED_MEASUREMENTS /\ from_lineprotocol(l) # "ok"

\* locks, attribute store, time series, history and notifications
Stores == <<group_locks, perun, influx, history, notifications>>

\* C22: a record whose metric is not registered ends its task in the step that
\* takes it from the queue: no lock is created or acquired, no store, time
\* series or history is touched, no exception is raised or counted.
NotRegisteredDropped ==
    [][\A w \in Workers :
        /\ (Takes(w) /\ NotRegistered(line'[w])) =>
            /\ pc'[w] = "task_done"
            /\ exc'[w] = "none"
            /\ pre'[w] = NoSnapshot /\ group'[w] = NoGroup
            /\ UNCHANGED Stores
        /\ (Acknowledges(w) /\ NotRegistered(line[w])) =>
            /\ pc'[w] = "get"
            /\ exceptions' = exceptions
            /\ UNCHANGED Stores]_vars

\* a record of an unregistered metric was taken and its project has no lock
NotRegisteredDroppedWitness ==
    \E w \in Workers :
        /\ pc[w] = "task_done"
        /\ NotRegistered(line[w])
        /\ group_locks[line[w].project_name] = NoLock

\* C23 as stated: a record of a registered metric that is not decoded ends
\* its task in the step that takes it from the queue: no lock is acquired, no
\* state is read or written, no exception is raised or counted.
NotDecodedDropped ==
    [][\A w \in Workers :
        /\ (Takes(w) /\ NotDecoded(line'[w])) =>
            /\ pc'[w] = "task_done"
            /\ exc'[w] = "none"
            /\ pre'[w] = NoSnapshot /\ group'[w] = NoGroup
            /\ UNCHANGED Stores
        /\ (Acknowledges(w) /\ NotDecoded(line[w])) =>
            /\ pc'[w] = "get"
            /\ exceptions' = exceptions
            /\ UNCHANGED Stores]_vars

\* the records still queued are the last ones accepted, in the order of
\* their acceptance
QueueIsSuffixOfPosted ==
    /\ Len(task_queue) <= Len(posted)
    /\ task_queue = SubSeq(posted, Len(posted) - Len(task_queue) + 1, Len(posted))

\* C24: a request to /write appends the lines of its body to the task queue,
\* each once and in body order, and is answered with 202 whatever the lines
\* are; a worker takes the record that was enqueued first, and nothing else
\* changes the queue.
QueueIsFIFO ==
    /\ [](QueueIsSuffixOfPosted /\ \A i \in 1..Len(responses) : responses[i] = HTTPAccepted)
    /\ [][/\ responses' # responses =>
               \E body \in Bodies :
                   /\ posted' = posted \o body
                   /\ task_queue' = task_queue \o body
                   /\ responses' = Append(responses, HTTPAccepted)
          /\ \A w \in Workers : Takes(w) =>
               /\ task_queue # <<>>
               /\ line'[w] = Head(task_queue)
               /\ task_queue' = Tail(task_queue)
               /\ posted' = posted
          /\ task_queue' # task_queue =>
               \/ responses' # responses
               \/ \E w \in Workers : Takes(w)
          /\ posted' # posted => responses' # responses]_vars

\* one request of two lines was answered, the first line malformed; a worker
\* holds the first line while the second is still queued
QueueIsFIFOWitness ==
    /\ Len(responses) = 1
    /\ Len(posted) = 2
    /\ posted[1] = MalformedLine
    /\ posted[2] # posted[1]
    /\ task_queue = <<posted[2]>>
    /\ \E w \in Workers : line[w] = posted[1]

----------------------------------------------------------------------------
(* State read under the lock *)

\* update_credits has the attributes of the project and has not written yet
Deciding(w) == pc[w] \in {"connect_rb", "query", "history", "save"}

\* C25: a task holds no project state before it has the lock (none is left
\* from an earlier task); from its read until its own write it holds the
\* lock, the store still holds what the task found when it took the lock,
\* and the attributes it decides on are the ones decoded from that.
ReadUnderLock ==
    \A w \in Workers :
        /\ pc[w] \in {"get", "lock", "connect"} => group[w] = NoGroup
        /\ Deciding(w) =>
            /\ group_locks[ProjectOf(w)].holder = Some(w)
            /\ perun[ProjectOf(w)] = Val(pre[w].perun)
            /\ group[w].credits_granted = PreGranted(w)
        /\ pc[w] = "connect_rb" => group[w].credits_used = PreUsed(w)
        /\ pc[w] \in {"query", "history", "save"} =>
            /\ group[w].credits_timestamps_copy = PreTimestamps(w)
            /\ local[w].previous_group_credits \in {None, PreUsed(w)}
        /\ pc[w] = "query" => group[w].credits_used = PreUsed(w)

\* a task decides on what an earlier task of the same project has committed
ReadUnderLockWitness ==
    \E w \in Workers :
        /\ pc[w] = "query"
        /\ perun[ProjectOf(w)] # initial.perun[ProjectOf(w)]
        /\ history[ProjectOf(w)] # <<>>
        /\ Num(group[w].credits_used) > Num(DenbiCreditsUsed_deserialize(
                                              initial.perun[ProjectOf(w)].credits_used))
        /\ group[w].credits_used = PersistedUsed(ProjectOf(w))

----------------------------------------------------------------------------
(* credits_granted *)

----------------------------------------------------------------------------
(* Metric registry *)

\* the metrics a registry map holds
Registered(map) == {Val(map[k]) : k \in {k \in DOMAIN map : map[k] # None}}

\* the definition that was attempted last names a registered id or
\* friendly_name
Duplicate(reg, attempt) ==
    /\ attempt.name # None
    /\ attempt.friendly_name # None
    /\ \/ reg.metrics_by_name[Val(attempt.name)] # None
       \/ reg.metrics_by_friendly_name[Val(attempt.friendly_name)] # None

\* C27: defining a metric whose id or friendly_name is registered already
\* raises ValueError and leaves both maps as they were; every metric is
\* filed under its own id and friendly_name, no two registered metrics share
\* either, and both maps hold the same metrics.
RegistryUnique ==
    /\ [](/\ \A n \in MetricNames : registry.metrics_by_name[n] # None =>
               Val(registry.metrics_by_name[n]).name = n
          /\ \A f \in FriendlyNames : registry.metrics_by_friendly_name[f] # None =>
               Val(registry.metrics_by_friendly_name[f]).friendly_name = f
          /\ Registered(registry.metrics_by_name)
                = Registered(registry.metrics_by_friendly_name)
          /\ \A m1, m2 \in Registered(registry.metrics_by_name) :
               (m1.name = m2.name \/ m1.friendly_name = m2.friendly_name) => m1 = m2)
    /\ [][Duplicate(registry, registry'.last) =>
            /\ registry'.raised = "ValueError"
            /\ registry'.metrics_by_name = registry.metrics_by_name
            /\ registry'.metrics_by_friendly_name = registry.metrics_by_friendly_name]_vars

\* two metrics are registered and a third definition, with a new id and the
\* friendly_name of one of them, has failed
RegistryUniqueWitness ==
    /\ Cardinality(Registered(registry.metrics_by_name)) = 2
    /\ registry.raised = "ValueError"
    /\ registry.metrics_by_name[Val(registry.last.name)] = None
    /\ registry.metrics_by_friendly_name[Val(registry.last.friendly_name)] # None

----------------------------------------------------------------------------
(* calculate_credits *)

\* r is n/d rounded to an integer, ties to the even neighbour
IsHalfEven(r, n, d) ==
    /\ 2 * Abs(r * d - n) <= d
    /\ 2 * Abs(r * d - n) = d => r % 2 = 0

\* result is the outcome of the base formula for the given current and
\* older measurement: (current.value - older.value) times the price of the
\* metric, rounded to units of credit, and CalculationResultError when the
\* rounded amount is negative
IsBaseFormula(result, metric, current, older) ==
    LET n == (current.value - older.value) * CREDITS_PER_VIRTUAL_HOUR(metric)[1] * UnitsPerCredit
        d == CREDITS_PER_VIRTUAL_HOUR(metric)[2]
    IN  IF 2 * n < -d
        THEN result.raised
        ELSE ~result.raised /\ IsHalfEven(result.credits, n, d)

BothCalculated == billing.forward # None /\ billing.backward # None

----------------------------------------------------------------------------
(* Attributes and their changed markers *)

\* the step assigns a value to the scalar attribute
Assigns == attribute'.last.op = "assign" /\ attribute' # attribute

\* an assignment that is accepted stores the value and marks the attribute
\* when the value differs from the current one
AssignmentStored ==
    /\ attribute'.raised = "none"
    /\ attribute'.scalar.value = attribute'.last.value
    /\ attribute'.scalar.updated =
           (attribute.scalar.updated \/ attribute'.last.value # attribute.scalar.value)

\* an assignment that is rejected raises TypeError and changes nothing
AssignmentRejected ==
    /\ attribute'.raised = "TypeError"
    /\ attribute'.scalar = attribute.scalar

\* C29 as stated: a fetched attribute is unchanged; an assignment is rejected
\* with TypeError, changing nothing, when a value is present and the new
\* value is of another type; otherwise the value is stored and the attribute
\* is marked exactly when the value differs.
ScalarChangedOnAssignAlways ==
    /\ [](attribute.last.op = "fetch" => ~attribute.scalar.updated)
    /\ [][Assigns =>
            IF /\ attribute.scalar.value # None
               /\ TypeOf(attribute'.last.value) # TypeOf(attribute.scalar.value)
            THEN AssignmentRejected
            ELSE AssignmentStored]_vars

\* C29, amended: the same, with the rejection only when the current value is
\* true as a boolean: over None, 0 or an empty string a value of any type is
\* stored and marks the attribute.
ScalarChangedOnAssign ==
    /\ [](attribute.last.op = "fetch" => ~attribute.scalar.updated)
    /\ [][Assigns =>
            IF /\ Truthy(attribute.scalar.value)
               /\ TypeOf(attribute'.last.value) # TypeOf(attribute.scalar.value)
            THEN AssignmentRejected
            ELSE AssignmentStored]_vars

\* a different value of the same type was stored and marked the attribute,
\* then a value of another type was rejected
ScalarChangedOnAssignWitness ==
    /\ attribute.last.op = "assign"
    /\ attribute.raised = "TypeError"
    /\ attribute.scalar.updated
    /\ Truthy(attribute.scalar.value)
    /\ TypeOf(attribute.last.value) = "str"
    /\ TypeOf(attribute.scalar.value) = "Decimal"

\* C30: has_changed of a container attribute is true exactly when its
\* contents differ from those at construction or at the last reset; setting
\* it to False takes the contents as the new snapshot, setting it to True
\* raises ValueError, assigning the container raises AttributeError, and
\* the last two change nothing.
ContainerChangedIffDiffers ==
    /\ [](ContainerHasChanged(attribute.container)
            = (attribute.container.credits_timestamps # attribute.snapshot))
    /\ [][/\ attribute'.last.op = "reset" =>
               /\ attribute'.raised = "none"
               /\ ~ContainerHasChanged(attribute'.container)
               /\ attribute'.container.credits_timestamps
                      = attribute.container.credits_timestamps
          /\ (attribute'.last.op = "mark" /\ attribute' # attribute) =>
               /\ attribute'.raised = "ValueError"
               /\ attribute'.container = attribute.container
          /\ (attribute'.last.op = "replace" /\ attribute' # attribute) =>
               /\ attribute'.raised = "AttributeError"
               /\ attribute'.container = attribute.container]_vars

\* after a reset the contents were changed and changed back: the attribute
\* is unchanged although they differ from the contents fetched
ContainerChangedIffDiffersWitness ==
    /\ attribute.last.op = "remove"
    /\ ~ContainerHasChanged(attribute.container)
    /\ attribute.snapshot # NoTimestamps
    /\ attribute.snapshot[VCPUMetric] # Some(1)

----------------------------------------------------------------------------
(* C31: save sends the changed attributes *)

\* a step that is one call of save
Saves == attribute'.saves = attribute.saves + 1

\* the calls issued by that save
NewCalls == SubSeq(attribute'.calls, Len(attribute.calls) + 1, Len(attribute'.calls))

\* the names of the attributes those calls carry
Sent == UNION {NewCalls[i].attributes : i \in 1..Len(NewCalls)}

\* the attributes whose changed flag is set before the save
Flagged ==
    {name \in GroupAttributes :
        \/ name = "credits_used" /\ attribute.object.group.credits_used_updated
        \/ name = "credits_timestamps"
             /\ attribute.object.group.credits_timestamps_copy
                    # attribute.object.group.credits_timestamps
        \/ name = "email" /\ attribute.object.email_copy # attribute.object.email}

\* what Perun holds for the attribute of this name
Stored(store, name) ==
    IF name = "email" THEN <<store.email>>
    ELSE IF name = "credits_granted" THEN <<store.attributes.credits_granted>>
    ELSE IF name = "credits_used" THEN <<store.attributes.credits_used>>
    ELSE <<store.attributes.credits_timestamps>>

\* C31: every save sends exactly the attributes whose changed flag is set,
\* or every attribute when it is forced; an attribute that is not sent
\* keeps its stored value, one that is sent gets the value of the group; a
\* save without a changed attribute that is not forced issues no call, and a
\* call carries either the attributes bound to the resource or the others
SaveSendsChanged ==
    [][Saves =>
        /\ Sent = (IF attribute'.save_all THEN GroupAttributes ELSE Flagged)
        /\ (Flagged = {} /\ ~attribute'.save_all) => NewCalls = <<>>
        /\ \A i \in 1..Len(NewCalls) :
              /\ NewCalls[i].attributes # {}
              /\ \A j \in 1..Len(NewCalls) : i # j =>
                    NewCalls[i].attributes \cap NewCalls[j].attributes = {}
        /\ \A name \in GroupAttributes \ Sent :
              Stored(attribute'.store, name) = Stored(attribute.store, name)
        /\ "credits_used" \in Sent =>
              attribute'.store.attributes.credits_used
                  = DenbiCreditsUsed_serialize(attribute.object.group.credits_used)
        /\ "credits_timestamps" \in Sent =>
              attribute'.store.attributes.credits_timestamps
                  = DenbiCreditTimestamps_encode(attribute.object.group.credits_timestamps)
        /\ "email" \in Sent => attribute'.store.email = attribute.object.email
        /\ attribute'.object = attribute.object]_vars

\* a save of an untouched group issued no call, and after credits_used was
\* assigned the next save sent credits_used alone
SaveSendsChangedWitness ==
    /\ attribute.saves = 2
    /\ Len(attribute.calls) = 1
    /\ attribute.calls[1].attributes = {"credits_used"}
    /\ ~attribute.save_all
    /\ attribute.store.attributes.credits_used = Str(10)

----------------------------------------------------------------------------
(* C32: the points since a timestamp *)

\* the stored points of the project and metric that are not older than since
NotOlder ==
    {point \in Selected(billing.db, billing.measurement, billing.project_name) :
        point.timestamp >= billing.since}

\* the elements of a sequence
Range(seq) == {seq[i] : i \in 1..Len(seq)}

\* later timestamps first
Descending(seq) ==
    \A i \in 1..Len(seq), j \in 1..Len(seq) : i < j => seq[i].timestamp >= seq[j].timestamp

\* the original statement of C32: query_points_since and previous_measurements
\* both return exactly the stored points of the project and metric that are
\* not older than since, later timestamps first
QuerySinceAllPoints ==
    /\ billing.yielded # None =>
          /\ Range(Val(billing.yielded)) = NotOlder
          /\ Descending(Val(billing.yielded))
    /\ billing.result # None =>
          /\ Range(Val(billing.result)) = NotOlder
          /\ Descending(Val(billing.result))

\* C32: query_points_since yields exactly the stored points of the project
\* and metric that are not older than since, each once, later timestamps
\* first; previous_measurements returns, for every timestamp at which such
\* a point is stored, exactly one of the points stored at that timestamp,
\* later timestamps first, and nothing else
QuerySince ==
    /\ billing.yielded # None =>
          /\ Range(Val(billing.yielded)) = NotOlder
          /\ Len(Val(billing.yielded)) = Cardinality(NotOlder)
          /\ Descending(Val(billing.yielded))
    /\ billing.result # None =>
          /\ Range(Val(billing.result)) \subseteq NotOlder
          /\ \A point \in NotOlder :
                \E i \in 1..Len(Val(billing.result)) :
                    Val(billing.result)[i].timestamp = point.timestamp
          /\ \A i \in 1..Len(Val(billing.result)), j \in 1..Len(Val(billing.result)) :
                i < j => Val(billing.result)[i].timestamp > Val(billing.result)[j].timestamp

\* both queries have answered on a database that holds a point older than
\* since and two points of one timestamp that is not older
QuerySinceWitness ==
    /\ billing.yielded # None
    /\ billing.result # None
    /\ \E point \in Selected(billing.db, billing.measurement, billing.project_name) :
          point.timestamp < billing.since
    /\ Len(Val(billing.yielded)) = 2
    /\ Len(Val(billing.result)) = 1

----------------------------------------------------------------------------
(* C33: the round trip through the line protocol *)

\* a text without the characters that separate the parts of a line
Plain(text) == \A i \in 1..Len(text) : text[i] \notin {" ", ","}

\* C33 as stated: decoding the line a measurement is encoded to raises
\* nothing and yields the same measurement.
RoundTrip ==
    billing.decoded # None =>
        /\ Val(billing.decoded).raised = "none"
        /\ Val(billing.decoded).point = billing.point

\* what holds of the round trip: it yields the same measurement when neither
\* the measurement name nor the project name holds a space or a comma
RoundTripPlain ==
    (/\ billing.decoded # None
     /\ Plain(billing.point.measurement)
     /\ Plain(billing.point.project_name)) =>
        /\ Val(billing.decoded).raised = "none"
        /\ Val(billing.decoded).point = billing.point

\* a measurement with plain names, an "=" and a quote among them, has made
\* the round trip over a line whose timestamp is not a whole microsecond
RoundTripPlainWitness ==
    /\ billing.decoded # None
    /\ billing.point.project_name = <<"=", "\"">>
    /\ billing.point.measurement = <<"a">>
    /\ Val(billing.decoded).point = billing.point
    /\ \E segment \in {Val(billing.influx_line)[Len(Val(billing.influx_line))]} :
          segment # ToString(billing.point.timestamp * NsPerUs)

----------------------------------------------------------------------------
(* C34: one lock per project name *)

\* every task that referenced a project holds the lock stored under the
\* project's name
SameLock ==
    \A t \in LockTasks :
        attribute.task[t].name # None =>
            attribute.group_locks[Val(attribute.task[t].name)] = attribute.task[t].lock

\* a stored lock stays stored and is not replaced, and a lock is built only
\* in a step that stores it under a name that had none
LocksOnlyGrow ==
    /\ \A name \in Projects :
          attribute.group_locks[name] # None =>
              attribute'.group_locks[name] = attribute.group_locks[name]
    /\ attribute'.created # attribute.created =>
          /\ attribute'.created = attribute.created + 1
          /\ \E name \in Projects :
                /\ attribute.group_locks[name] = None
                /\ attribute'.group_locks[name] = Some(attribute'.created)

\* C34: all tasks that reference a project name get the same lock, two
\* tasks that reference a project without a lock one after the other while
\* the first is still under way included; a lock is built on the first
\* reference only and never removed or replaced.
OneLockPerProject == [](SameLock) /\ [][LocksOnlyGrow]_vars

\* two tasks referenced the same project, which had no lock before, at the
\* same time: one holds its lock, the other waits for the same lock, and a
\* third task holds the lock of the other project
OneLockPerProjectWitness ==
    \E t1, t2, t3 \in LockTasks :
        /\ attribute.task[t1].at = "holding"
        /\ attribute.task[t2].at = "waiting"
        /\ attribute.task[t1].name = Some("p1")
        /\ attribute.task[t2].name = Some("p1")
        /\ attribute.task[t1].lock = attribute.task[t2].lock
        /\ attribute.task[t3].at = "holding"
        /\ attribute.task[t3].name = Some("p2")
        /\ attribute.created = 2

----------------------------------------------------------------------------
(* C35: the order in which two tasks take the lock *)

\* two measurements with different timestamps, both newer than the
\* timestamp billed last
NewerPair(body) ==
    /\ Len(body) = 2
    /\ body[1].timestamp # body[2].timestamp
    /\ \A i \in 1..2 :
          body[i].timestamp > Val(DenbiCreditTimestamps_decode(
                                      initial.perun["p1"].credits_timestamps)[VCPUMetric])

\* the second run has processed the records of the first
SecondRunSettled ==
    /\ billing # None
    /\ Settled
    /\ posted = Val(billing).posted

SameOutcome ==
    /\ PersistedUsed("p1") = Val(billing).credits_used
    /\ PersistedTimestamps("p1") = Val(billing).credits_timestamps

\* C35 as stated: two runs on the same two measurements leave the same
\* credits_used and the same last-billed timestamps, whichever task took
\* the lock first in each run.
OrderIndependent == (SecondRunSettled /\ NewerPair(posted)) => SameOutcome

\* the usage value grows from the value billed last over the older to the
\* newer of the two measurements
Rising(body) ==
    LET older == IF body[1].timestamp < body[2].timestamp THEN body[1] ELSE body[2]
        newer == IF body[1].timestamp < body[2].timestamp THEN body[2] ELSE body[1]
    IN  older.value < newer.value

\* C35, amended: the outcome is the same in whichever order the lock is
\* taken when the usage value of the newer measurement is above that of the
\* older one.
OrderIndependentRising ==
    (SecondRunSettled /\ NewerPair(posted) /\ Rising(posted)) => SameOutcome

\* both runs have billed the pair to the same outcome, the first with two
\* history records (older measurement first), the second with one (newer
\* measurement first, the older one stale)
OrderIndependentRisingWitness ==
    /\ SecondRunSettled
    /\ NewerPair(posted)
    /\ Rising(posted)
    /\ SameOutcome
    /\ Len(history["p1"]) = 1
    /\ PersistedUsed("p1") = Some(20 * UnitsPerCredit)

----------------------------------------------------------------------------
(* C36: a measurement delivered twice *)

\* the same line was received twice, both deliveries have been taken from
\* the queue and both tasks have left their critical sections
DeliveredTwice ==
    /\ Len(posted) = 2
    /\ posted[1] = posted[2]
    /\ posted[1] \in VCPULines
    /\ task_queue = <<>>
    /\ \A w \in Workers : pc[w] \in {"get", "notify", "task_done"}

\* what one delivery of the line bills on the initial state: the difference
\* to the value at the timestamp billed last, nothing for a stale line
SingleBill(l) ==
    LET last == Val(DenbiCreditTimestamps_decode(
                        initial.perun["p1"].credits_timestamps)[l.name])
    IN  IF IsStale(l.timestamp, Some(last)) THEN 0
        ELSE MetricCalculateCredits(l.name, l.value,
                                    Val(initial.influx[<<"p1", l.name>>][last]))

HistoryRecordsAt(p, timestamp) ==
    Cardinality({i \in DOMAIN history[p] : history[p][i].timestamp = timestamp})

\* C36: when the same measurement is delivered twice, credits_used has grown
\* by what one delivery bills and the history holds one record for it (none
\* when one delivery bills nothing).
DuplicateBilledOnce ==
    DeliveredTwice =>
        /\ PersistedUsed("p1") =
               Some(Val(DenbiCreditsUsed_deserialize(initial.perun["p1"].credits_used))
                    + SingleBill(posted[1]))
        /\ HistoryRecordsAt("p1", posted[1].timestamp) =
               IF SingleBill(posted[1]) > 0 THEN 1 ELSE 0

\* both deliveries were processed at the same time by two workers, neither
\* task is acknowledged yet; one billed 20 credits and raised the
\* notification, the other found the measurement stale
DuplicateBilledOnceWitness ==
    /\ DeliveredTwice
    /\ \E w1, w2 \in Workers :
          /\ w1 # w2
          /\ line[w1] = posted[1]
          /\ line[w2] = posted[1]
          /\ pc[w1] = "notify"
          /\ pc[w2] = "task_done"
    /\ PersistedUsed("p1") = Some(20 * UnitsPerCredit)
    /\ Len(history["p1"]) = 1

----------------------------------------------------------------------------
(* C37: credits_used and the last-billed timestamp *)

\* C37: when a task has ended, whether it returned or a call to Perun or
\* InfluxDB failed, credits_used in Perun differs from its value before the
\* task only if the last-billed timestamp of the task's metric in Perun is
\* the timestamp of the task's measurement.
UsedAndTimestampInStep ==
    \A w \in Workers :
        (/\ Finished(w)
         /\ pre[w].perun # None
         /\ perun[ProjectOf(w)].credits_used # Val(pre[w].perun).credits_used) =>
            PersistedTimestamps(ProjectOf(w))[MetricOf(w)] = Some(line[w].timestamp)

\* a task has billed and ended with credits_used and both timestamps stored
UsedAndTimestampInStepWitness ==
    \E w \in Workers :
        /\ Finished(w)
        /\ exc[w] = "none"
        /\ PersistedUsed("p1") = Some(10 * UnitsPerCredit)
        /\ Val(pre[w].perun).credits_used = DenbiCreditsUsed_serialize(Some(0))
        /\ PersistedTimestamps("p1")[VCPUMetric] = Some(line[w].timestamp)
        /\ line[w].timestamp = 2

----------------------------------------------------------------------------
(* C38: no value in the window *)

\* the task of worker w found no point at the last-billed timestamp and no
\* point after it
EmptyWindow(w) ==
    /\ pc[w] = "query"
    /\ previous_measurements(influx, ProjectOf(w), MetricOf(w),
                             Val(group[w].credits_timestamps[MetricOf(w)])) = <<>>

\* the steps of a task with an empty window and of a task that ended with
\* an exception
EmptyWindowStep ==
    \A w \in Workers :
        /\ (EmptyWindow(w) /\ pc'[w] # pc[w]) =>
               /\ pc'[w] = "release"
               /\ exc'[w] = "error"
               /\ perun' = perun
               /\ history' = history
               /\ perun[ProjectOf(w)] = Val(pre[w].perun)
               /\ history[ProjectOf(w)] = pre[w].history
        /\ (Finished(w) /\ exc[w] = "error" /\ pc'[w] # pc[w]) =>
               /\ pc'[w] = "task_done"
               /\ group_locks'[ProjectOf(w)].holder = None
        /\ (pc[w] = "task_done" /\ exc[w] = "error" /\ pc'[w] # pc[w]) =>
               /\ pc'[w] = "get"
               /\ exceptions' = exceptions + 1
               /\ unfinished' = unfinished - 1
               /\ task_workers'[w] = "running"
               /\ perun' = perun
               /\ history' = history

\* C38: a task that finds no value at the last-billed timestamp and none
\* after it ends with an exception and has stored nothing; the lock is then
\* released, and the worker counts the exception, acknowledges the record
\* and waits for the next one.
EmptyWindowEndsInException == [][EmptyWindowStep]_vars

\* a line whose point is not stored was processed after retention removed
\* the point billed last: one exception is counted, the record is
\* acknowledged, Perun and the history are as they were at first, the lock
\* is free and the worker waits
EmptyWindowEndsInExceptionWitness ==
    /\ Len(posted) = 1
    /\ posted[1].timestamp > 1
    /\ influx[<<"p1", VCPUMetric>>] = [t \in Times |-> None]
    /\ exceptions = 1
    /\ unfinished = 0
    /\ perun = initial.perun
    /\ history["p1"] = <<>>
    /\ group_locks["p1"] = [created |-> TRUE, holder |-> None]
    /\ \A w \in Workers : pc[w] = "get" /\ task_workers[w] = "running"

----------------------------------------------------------------------------
(* C39: the notification is sent after the lock was released *)

\* a task that sends its notification does not hold the lock of its project
NotifyingHoldsNoLock ==
    \A w \in Workers :
        pc[w] = "notify" => group_locks[ProjectOf(w)].holder # Some(w)

\* a task starts to send its notification in the step that releases the
\* lock, and the step that ends the sending, sent or failed, leaves locks,
\* Perun and the history alone
NotifyAfterRelease ==
    \A w \in Workers :
        /\ (pc'[w] = "notify" /\ pc[w] # "notify") =>
               /\ Finished(w)
               /\ group_locks[ProjectOf(w)].holder = Some(w)
               /\ group_locks'[ProjectOf(w)].holder = None
        /\ (pc[w] = "notify" /\ pc'[w] # "notify") =>
               /\ pc'[w] = "task_done"
               /\ UNCHANGED <<group_locks, perun, history>>

\* C39: the lock of the project is released before the notification of the
\* task is sent, so that the lock is not held by the task while the mail is
\* sent or fails to be sent.
LockReleasedBeforeNotification == [](NotifyingHoldsNoLock) /\ [][NotifyAfterRelease]_vars

\* while one task sends its notification, a second task of the same project
\* has taken the lock, billed the other metric and stored it
LockReleasedBeforeNotificationWitness ==
    \E w1, w2 \in Workers :
        /\ pc[w1] = "notify"
        /\ ProjectOf(w2) = ProjectOf(w1)
        /\ Finished(w2)
        /\ group_locks[ProjectOf(w2)].holder = Some(w2)
        /\ exc[w2] = "none"
        /\ Len(history[ProjectOf(w2)]) = Len(pre[w2].history) + 1
        /\ PersistedUsed(ProjectOf(w2)) # DenbiCreditsUsed_deserialize(Val(pre[w2].perun).credits_used)

----------------------------------------------------------------------------
(* C40: every record is acknowledged *)

\* the projects whose lock worker w holds
LocksHeld(w) == {p \in Projects : group_locks[p].holder = Some(w)}

\* C40: a task holds at most one lock, and whenever records are
\* unacknowledged the service reaches a state in which every record
\* received so far is acknowledged, the queue is empty and every lock free.
EveryRecordAcknowledged ==
    /\ [](\A w \in Workers : Cardinality(LocksHeld(w)) <= 1)
    /\ (unfinished > 0) ~>
           (/\ unfinished = 0
            /\ task_queue = <<>>
            /\ \A p \in Projects : group_locks[p].holder = None)

\* two records of one project were received while both workers were busy
\* with it; one task ended with a failed call, the other sent a
\* notification; both records are acknowledged and the lock is free
EveryRecordAcknowledgedWitness ==
    /\ Len(posted) = 2
    /\ posted[1].project_name = posted[2].project_name
    /\ unfinished = 0
    /\ task_queue = <<>>
    /\ exceptions = 1
    /\ notifications["p1"] = 1
    /\ group_locks["p1"] = [created |-> TRUE, holder |-> None]
    /\ \A w \in Workers : pc[w] = "get"

====
